---- MODULE Spec2Model ----
(***************************************************************************)
(* Model of the non-blocking TCP connector of src/core/iomgr/              *)
(* tcp_client_posix.c: one call of grpc_tcp_client_connect, the write      *)
(* closure on_writable and the deadline callback tc_on_alarm, each run by  *)
(* its own execution context and stepped statement by statement, sharing   *)
(* the async_connect record under its mutex.                               *)
(***************************************************************************)
EXTENDS Integers, Sequences, FiniteSets, TLC

(* How many times the kernel may answer ENOBUFS to getsockopt(SO_ERROR).   *)
MaxEnobufs == 2

(* Outcomes of connect(2) after the EINTR retry loop (lines 231-234).      *)
ConnectResults == {"ok", "inprogress", "error"}

(* Outcomes of getsockopt(SO_ERROR) after the EINTR retry loop             *)
(* (lines 129-132): the call failed, or so_error is 0 / ENOBUFS / other.   *)
SoErrors == {"getsockopt_failed", "0", "ENOBUFS", "ECONNREFUSED"}

VARIABLES
  (* grpc_tcp_client_connect: position and locals *)
  cpc,        \* statement the call is at ("c_init" = not called yet)
  sockfd,     \* raw descriptor: "unset", "none" (fd < 0), "open", "closed"
  err,        \* result of connect(2): "unset" or one of ConnectResults
  (* the grpc_fd wrapping the socket *)
  fdCreated,  \* grpc_fd_create has run
  fdShutdown, \* grpc_fd_shutdown has run on it
  orphans,    \* number of grpc_fd_orphan calls on it
  wc,         \* write closure of the grpc_fd: "unarmed" or "armed"
  adds,       \* grpc_pollset_set_add_fd calls
  dels,       \* grpc_pollset_set_del_fd calls
  (* the async_connect record *)
  acState,    \* "none", "live", "freed"
  ac_fd,      \* ac->fd: "NULL" or "fdobj"
  refs,       \* ac->refs
  mu,         \* holder of ac->mu: "free", "connect", "on_writable", "tc_on_alarm"
  alarm,      \* ac->alarm: "unarmed", "pending", "fired", "cancelled"
  (* tc_on_alarm: position and locals *)
  tpc, tsuccess, tdone,
  (* on_writable: position and locals *)
  wpc, wsuccess, wfd, wep, wso, wdone, cancelSync,
  (* observations *)
  cbCount,    \* invocations of the caller's cb
  cbEp,       \* endpoint argument of the last invocation: "none", "NULL", "ep"
  cbFrom,     \* function that made it: "none", "connect", "on_writable", "tc_on_alarm"
  aborted,    \* GPR_ASSERT failed: the process has aborted
  enobufs,    \* ENOBUFS answers seen so far
  tcDecs,     \* decrements of refs made by tc_on_alarm
  owDecs,     \* decrements of refs made by on_writable
  frees,      \* releases of the record
  tcRuns,     \* runs of tc_on_alarm started
  shutArmed,  \* tc_on_alarm shut the descriptor down while the closure was armed
  owLog,      \* what the current run of on_writable has done so far, in order
  (* test/core/iomgr/fd_posix_test.c: main, run by the single polling thread *)
  mpc,        \* statement main is at, through test_grpc_fd and test_grpc_fd_change
  rpc,        \* statement the running callback is at ("none": no callback runs)
  rsuccess,   \* the success argument of the running callback
  loc,        \* locals of the running callback: read_once, read_total
  sv,         \* the upload server: em_fd (listening), read_bytes_total, done
  se,         \* the upload session: em_fd, allocated
  cl,         \* the upload client: em_fd, write_bytes_total, client_write_cnt, done
  net,        \* the kernel: pendingConn, snd and rcv buffers, client end closed
  chg,        \* test_grpc_fd_change: em_fd, data in sv[0], a, b, runs of each callback
  testAborted, \* a GPR_ASSERT of the test failed
  (* test/core/util/reconnect_server.c *)
  rs,         \* the reconnect_server: head, tail, peer and the heap of nodes
  (* test/core/json/json_rewrite.c *)
  js          \* json_reader_userdata: free_space, allocated, string_len

connectVars == <<cpc, sockfd, err>>
fdVars == <<fdCreated, fdShutdown, orphans, wc, adds, dels>>
acVars == <<acState, ac_fd, refs, mu, alarm>>
tcVars == <<tpc, tsuccess, tdone>>
owVars_locals == <<wsuccess, wfd, wep, wso, wdone, cancelSync>>
owVars == <<wpc, owVars_locals>>
cbVars == <<cbCount, cbEp, cbFrom>>
obsVars == <<aborted, enobufs, tcDecs, owDecs, frees, tcRuns, shutArmed>>

connVars == <<connectVars, fdVars, acVars, tcVars, owVars, cbVars, obsVars,
              owLog>>
testVars == <<mpc, rpc, rsuccess, loc, sv, se, cl, net, chg, testAborted>>

utilVars == <<rs, js>>

vars == <<connVars, testVars, utilVars>>

(* test/core/iomgr/fd_posix_test.c *)
BUF_SIZE == 1024
CLIENT_WRITE_BUF_SIZE == 10
CLIENT_TOTAL_WRITE_CNT == 3

(* Bytes the kernel holds for the connection on the sending side and on  *)
(* the receiving side.                                                   *)
SndBufCap == 2
RcvBufCap == 2

Min(a, b) == IF a <= b THEN a ELSE b

(* A grpc_fd as section 4.1 of the specification states it: at most one  *)
(* armed read or write callback at a time, a shutdown flag, orphaned     *)
(* once.                                                                 *)
NoFd == [created |-> FALSE, closure |-> "none", shutdown |-> FALSE,
         orphans |-> 0]
grpc_fd_create == [NoFd EXCEPT !.created = TRUE]
grpc_fd_notify_on(fd, closure) == [fd EXCEPT !.closure = closure]
grpc_fd_shutdown(fd) == [fd EXCEPT !.shutdown = TRUE]
grpc_fd_orphan(fd) == [fd EXCEPT !.orphans = @ + 1, !.closure = "none"]

InitTest ==
  /\ mpc = "m377" /\ rpc = "none" /\ rsuccess = FALSE
  /\ loc = [read_once |-> 0, read_total |-> 0]
  /\ sv = [em_fd |-> NoFd, read_bytes_total |-> 0, done |-> 0]
  /\ se = [em_fd |-> NoFd, allocated |-> FALSE]
  /\ cl = [em_fd |-> NoFd, write_bytes_total |-> 0, client_write_cnt |-> 0,
           done |-> 0]
  /\ net = [pendingConn |-> 0, snd |-> 0, rcv |-> 0, closed |-> FALSE]
  /\ chg = [em_fd |-> NoFd, data |-> 0, a |-> "NULL", b |-> "NULL",
            firstRuns |-> 0, secondRuns |-> 0]
  /\ testAborted = FALSE

(* test/core/util/reconnect_server.c *)

(* Nodes the heap can hold at a time, and the values gpr_now can give.   *)
MaxNodes == 3
MaxTime == 2

NodeIds == 1..MaxNodes
NULL == 0

(* Values of grpc_endpoint_get_peer: none, host:port strings of two      *)
(* hosts, and a string without a colon.                                  *)
Peers == {"NULL", "a:1", "a:2", "b:1", "nocolon"}

(* lines 104-112: reconnect_server_init: head, tail and peer are NULL.   *)
(* No node is allocated; ts and next hold what each node was last given. *)
reconnect_server_init ==
  rs = [head |-> NULL, tail |-> NULL, peer |-> "NULL",
        alloc |-> {}, next |-> [n \in NodeIds |-> NULL],
        ts |-> [n \in NodeIds |-> 0],
        arrivals |-> << >>, lastOp |-> "init", everCleared |-> FALSE]

(* test/core/json/json_rewrite.c *)

(* lines 220-224 of rewrite: scratchpad = NULL; string_len = 0;          *)
(* free_space = 0; allocated = 0. lastIndex, lastAllocated and overflow  *)
(* observe the stores of line 101: the index written, the size of the    *)
(* scratchpad at that time, and whether a store fell outside of it.      *)
InitJson ==
  js = [free_space |-> 0, allocated |-> 0, string_len |-> 0,
        lastIndex |-> 0, lastAllocated |-> 0, overflow |-> FALSE]

Init ==
  /\ cpc = "c_init" /\ sockfd = "unset" /\ err = "unset"
  /\ fdCreated = FALSE /\ fdShutdown = FALSE /\ orphans = 0
  /\ wc = "unarmed" /\ adds = 0 /\ dels = 0
  /\ acState = "none" /\ ac_fd = "NULL" /\ refs = 0 /\ mu = "free"
  /\ alarm = "unarmed"
  /\ tpc = "idle" /\ tsuccess = FALSE /\ tdone = FALSE
  /\ wpc = "idle" /\ wsuccess = FALSE /\ wfd = "NULL" /\ wep = "NULL"
  /\ wso = "unset" /\ wdone = FALSE /\ cancelSync = FALSE
  /\ cbCount = 0 /\ cbEp = "none" /\ cbFrom = "none"
  /\ aborted = FALSE /\ enobufs = 0 /\ tcDecs = 0 /\ owDecs = 0
  /\ frees = 0 /\ tcRuns = 0 /\ shutArmed = FALSE
  /\ owLog = << >>
  /\ InitTest
  /\ reconnect_server_init
  /\ InitJson

(* cb(arg, ep) as called by function `from`. *)
InvokeCb(from, ep) ==
  /\ cbCount' = cbCount + 1
  /\ cbEp' = ep
  /\ cbFrom' = from

----------------------------------------------------------------------------
(* grpc_tcp_client_connect *)

(* line 216: fd = grpc_create_dualstack_socket(...), which may fail. *)
C_CreateSocket ==
  /\ ~aborted /\ cpc = "c_init"
  /\ \E ok \in BOOLEAN : sockfd' = IF ok THEN "open" ELSE "none"
  /\ cpc' = "c226"
  /\ UNCHANGED <<err, fdVars, acVars, tcVars, owVars, cbVars, obsVars>>
  /\ UNCHANGED owLog
  /\ UNCHANGED <<testVars, utilVars>>

(* Variant of C_PrepareSocket whose error exit does not close the fd. *)
C_PrepareSocket_NoClose ==
  /\ ~aborted /\ cpc = "c226"
  /\ \E optsOk \in BOOLEAN :
       IF sockfd = "none"
         THEN /\ cpc' = "c227" /\ sockfd' = sockfd
         ELSE IF optsOk
                THEN /\ cpc' = "c233" /\ sockfd' = sockfd
                ELSE /\ cpc' = "c227" /\ sockfd' = sockfd
  /\ UNCHANGED <<err, fdVars, acVars, tcVars, owVars, cbVars, obsVars>>
  /\ UNCHANGED owLog
  /\ UNCHANGED <<testVars, utilVars>>

(* prepare_socket: a negative fd or a failed option closes the fd (if any) *)
(* and returns 0; otherwise returns 1.                                     *)
C_PrepareSocket ==
  /\ ~aborted /\ cpc = "c226"
  /\ \E optsOk \in BOOLEAN :
       IF sockfd = "none"
         THEN /\ cpc' = "c227" /\ sockfd' = sockfd
         ELSE IF optsOk
                THEN /\ cpc' = "c233" /\ sockfd' = sockfd
                ELSE /\ cpc' = "c227" /\ sockfd' = "closed"
  /\ UNCHANGED <<err, fdVars, acVars, tcVars, owVars, cbVars, obsVars>>
  /\ UNCHANGED owLog
  /\ UNCHANGED <<testVars, utilVars>>

(* lines 227-228: cb(arg, NULL); return. *)
C_PrepareFailedCb ==
  /\ ~aborted /\ cpc = "c227"
  /\ InvokeCb("connect", "NULL")
  /\ cpc' = "c228"
  /\ UNCHANGED <<sockfd, err, fdVars, acVars, tcVars, owVars, obsVars>>
  /\ UNCHANGED owLog
  /\ UNCHANGED <<testVars, utilVars>>

C_PrepareFailedReturn ==
  /\ ~aborted /\ cpc = "c228"
  /\ cpc' = "returned"
  /\ UNCHANGED <<sockfd, err, fdVars, acVars, tcVars, owVars, cbVars, obsVars>>
  /\ UNCHANGED owLog
  /\ UNCHANGED <<testVars, utilVars>>

(* lines 231-234: err = connect(fd, addr, addr_len), retried on EINTR. *)
C_Connect ==
  /\ ~aborted /\ cpc = "c233"
  /\ \E r \in ConnectResults : err' = r
  /\ cpc' = "c239"
  /\ UNCHANGED <<sockfd, fdVars, acVars, tcVars, owVars, cbVars, obsVars>>
  /\ UNCHANGED owLog
  /\ UNCHANGED <<testVars, utilVars>>

(* Variant of C_FdCreate that tests err > 0 instead of err >= 0. *)
C_FdCreate_WrongBranch ==
  /\ ~aborted /\ cpc = "c239"
  /\ fdCreated' = TRUE
  /\ cpc' = CASE err = "ok" -> "c253"
              [] err = "error" -> "c248"
              [] OTHER -> "c253"
  /\ UNCHANGED <<sockfd, err, fdShutdown, orphans, wc, adds, dels,
                 acVars, tcVars, owVars, cbVars, obsVars>>
  /\ UNCHANGED owLog
  /\ UNCHANGED <<testVars, utilVars>>

(* lines 239-251: fdobj = grpc_fd_create(fd, name), then the branch on err. *)
C_FdCreate ==
  /\ ~aborted /\ cpc = "c239"
  /\ fdCreated' = TRUE
  /\ cpc' = CASE err = "ok" -> "c242"
              [] err = "error" -> "c248"
              [] OTHER -> "c253"
  /\ UNCHANGED <<sockfd, err, fdShutdown, orphans, wc, adds, dels,
                 acVars, tcVars, owVars, cbVars, obsVars>>
  /\ UNCHANGED owLog
  /\ UNCHANGED <<testVars, utilVars>>

(* line 242: cb(arg, grpc_tcp_create(fdobj, ...)); goto done. *)
C_ImmediateSuccessCb ==
  /\ ~aborted /\ cpc = "c242"
  /\ InvokeCb("connect", "ep")
  /\ cpc' = "c274"
  /\ UNCHANGED <<sockfd, err, fdVars, acVars, tcVars, owVars, obsVars>>
  /\ UNCHANGED owLog
  /\ UNCHANGED <<testVars, utilVars>>

(* line 248: grpc_fd_orphan(fdobj, NULL, "tcp_client_connect_error"). *)
C_ErrorOrphan ==
  /\ ~aborted /\ cpc = "c248"
  /\ orphans' = orphans + 1
  /\ cpc' = "c249"
  /\ UNCHANGED <<sockfd, err, fdCreated, fdShutdown, wc, adds, dels,
                 acVars, tcVars, owVars, cbVars, obsVars>>
  /\ UNCHANGED owLog
  /\ UNCHANGED <<testVars, utilVars>>

(* Variant of C_ErrorCb without the goto: falls through to line 253. *)
C_ErrorCb_NoGoto ==
  /\ ~aborted /\ cpc = "c249"
  /\ InvokeCb("connect", "NULL")
  /\ cpc' = "c253"
  /\ UNCHANGED <<sockfd, err, fdVars, acVars, tcVars, owVars, obsVars>>
  /\ UNCHANGED owLog
  /\ UNCHANGED <<testVars, utilVars>>

(* lines 249-250: cb(arg, NULL); goto done. *)
C_ErrorCb ==
  /\ ~aborted /\ cpc = "c249"
  /\ InvokeCb("connect", "NULL")
  /\ cpc' = "c274"
  /\ UNCHANGED <<sockfd, err, fdVars, acVars, tcVars, owVars, obsVars>>
  /\ UNCHANGED owLog
  /\ UNCHANGED <<testVars, utilVars>>

(* line 253: grpc_pollset_set_add_fd(interested_parties, fdobj). *)
C_AddFd ==
  /\ ~aborted /\ cpc = "c253"
  /\ adds' = adds + 1
  /\ cpc' = "c255"
  /\ UNCHANGED <<sockfd, err, fdCreated, fdShutdown, orphans, wc, dels,
                 acVars, tcVars, owVars, cbVars, obsVars>>
  /\ UNCHANGED owLog
  /\ UNCHANGED <<testVars, utilVars>>

(* Variant of C_AllocAc that counts one reference instead of two. *)
C_AllocAc_OneRef ==
  /\ ~aborted /\ cpc = "c255"
  /\ acState' = "live" /\ ac_fd' = "fdobj" /\ refs' = 1 /\ mu' = "free"
  /\ cpc' = "c267"
  /\ UNCHANGED <<sockfd, err, fdVars, alarm, tcVars, owVars, cbVars, obsVars>>
  /\ UNCHANGED owLog
  /\ UNCHANGED <<testVars, utilVars>>

(* lines 255-265: ac = gpr_malloc(...); ac->fd = fdobj; ac->refs = 2; ... *)
C_AllocAc ==
  /\ ~aborted /\ cpc = "c255"
  /\ acState' = "live" /\ ac_fd' = "fdobj" /\ refs' = 2 /\ mu' = "free"
  /\ cpc' = "c267"
  /\ UNCHANGED <<sockfd, err, fdVars, alarm, tcVars, owVars, cbVars, obsVars>>
  /\ UNCHANGED owLog
  /\ UNCHANGED <<testVars, utilVars>>

(* Variant of C_Lock that arms the timer and the closure unlocked. *)
C_Lock_Missing ==
  /\ ~aborted /\ cpc = "c267"
  /\ cpc' = "c268"
  /\ UNCHANGED <<sockfd, err, fdVars, acVars, tcVars, owVars, cbVars,
                 obsVars>>
  /\ UNCHANGED owLog
  /\ UNCHANGED <<testVars, utilVars>>

(* line 267: gpr_mu_lock(&ac->mu). *)
C_Lock ==
  /\ ~aborted /\ cpc = "c267"
  /\ mu = "free" /\ mu' = "connect"
  /\ cpc' = "c268"
  /\ UNCHANGED <<sockfd, err, fdVars, acState, ac_fd, refs, alarm,
                 tcVars, owVars, cbVars, obsVars>>
  /\ UNCHANGED owLog
  /\ UNCHANGED <<testVars, utilVars>>

(* Variant of C_AlarmInit that does not arm the timer. *)
C_AlarmInit_Missing ==
  /\ ~aborted /\ cpc = "c268"
  /\ alarm' = alarm
  /\ cpc' = "c271"
  /\ UNCHANGED <<sockfd, err, fdVars, acState, ac_fd, refs, mu,
                 tcVars, owVars, cbVars, obsVars>>
  /\ UNCHANGED owLog
  /\ UNCHANGED <<testVars, utilVars>>

(* lines 268-270: grpc_alarm_init(&ac->alarm, deadline, tc_on_alarm, ac, now). *)
C_AlarmInit ==
  /\ ~aborted /\ cpc = "c268"
  /\ alarm' = "pending"
  /\ cpc' = "c271"
  /\ UNCHANGED <<sockfd, err, fdVars, acState, ac_fd, refs, mu,
                 tcVars, owVars, cbVars, obsVars>>
  /\ UNCHANGED owLog
  /\ UNCHANGED <<testVars, utilVars>>

(* line 271: grpc_fd_notify_on_write(ac->fd, &ac->write_closure). *)
C_NotifyOnWrite ==
  /\ ~aborted /\ cpc = "c271"
  /\ wc' = "armed"
  /\ cpc' = "c272"
  /\ UNCHANGED <<sockfd, err, fdCreated, fdShutdown, orphans, adds, dels,
                 acVars, tcVars, owVars, cbVars, obsVars>>
  /\ UNCHANGED owLog
  /\ UNCHANGED <<testVars, utilVars>>

(* line 272: gpr_mu_unlock(&ac->mu). *)
C_Unlock ==
  /\ ~aborted /\ cpc = "c272"
  /\ mu' = "free"
  /\ cpc' = "c274"
  /\ UNCHANGED <<sockfd, err, fdVars, acState, ac_fd, refs, alarm,
                 tcVars, owVars, cbVars, obsVars>>
  /\ UNCHANGED owLog
  /\ UNCHANGED <<testVars, utilVars>>

(* lines 274-277: done: gpr_free(name); gpr_free(addr_str); return. *)
C_Done ==
  /\ ~aborted /\ cpc = "c274"
  /\ cpc' = "returned"
  /\ UNCHANGED <<sockfd, err, fdVars, acVars, tcVars, owVars, cbVars, obsVars>>
  /\ UNCHANGED owLog
  /\ UNCHANGED <<testVars, utilVars>>

grpc_tcp_client_connect ==
  \/ C_CreateSocket \/ C_PrepareSocket \/ C_PrepareFailedCb
  \/ C_PrepareFailedReturn \/ C_Connect \/ C_FdCreate
  \/ C_ImmediateSuccessCb \/ C_ErrorOrphan \/ C_ErrorCb \/ C_AddFd
  \/ C_AllocAc \/ C_Lock \/ C_AlarmInit \/ C_NotifyOnWrite \/ C_Unlock
  \/ C_Done

----------------------------------------------------------------------------
(* The deadline timer (alarm) as section 4.3 of the specification states   *)
(* it: firing and cancellation are decided by one atomic transition, and   *)
(* the callback runs exactly once either way.                              *)

(* The deadline elapses: the timer fires and tc_on_alarm(ac, 1) starts. *)
AlarmFire ==
  /\ ~aborted /\ alarm = "pending"
  /\ alarm' = "fired"
  /\ tpc' = "t95" /\ tsuccess' = TRUE
  /\ tcRuns' = tcRuns + 1
  /\ UNCHANGED <<connectVars, fdVars, acState, ac_fd, refs, mu, tdone,
                 owVars, cbVars, aborted, enobufs, tcDecs, owDecs, frees,
                 shutArmed>>
  /\ UNCHANGED owLog
  /\ UNCHANGED <<testVars, utilVars>>

(* grpc_alarm_cancel: pre-empts a pending timer, which starts              *)
(* tc_on_alarm(ac, 0); a no-op on a timer that fired or was cancelled.     *)
(* The callback runs inside the cancel call (sync) or concurrently.        *)
grpc_alarm_cancel(sync) ==
  IF alarm = "pending"
    THEN /\ alarm' = "cancelled"
         /\ tpc' = "t95" /\ tsuccess' = FALSE
         /\ tcRuns' = tcRuns + 1
         /\ cancelSync' = sync
    ELSE /\ UNCHANGED <<alarm, tpc, tsuccess, tcRuns>>
         /\ cancelSync' = FALSE

----------------------------------------------------------------------------
(* tc_on_alarm *)

(* Variant of T_Lock that does not take ac->mu. *)
T_Lock_Missing ==
  /\ ~aborted /\ tpc = "t95"
  /\ mu' = mu
  /\ tpc' = "t96"
  /\ UNCHANGED <<connectVars, fdVars, acState, ac_fd, refs, alarm,
                 tsuccess, tdone, owVars, cbVars, obsVars>>
  /\ UNCHANGED owLog
  /\ UNCHANGED <<testVars, utilVars>>

(* line 95: gpr_mu_lock(&ac->mu). *)
T_Lock ==
  /\ ~aborted /\ tpc = "t95"
  /\ mu = "free" /\ mu' = "tc_on_alarm"
  /\ tpc' = "t96"
  /\ UNCHANGED <<connectVars, fdVars, acState, ac_fd, refs, alarm,
                 tsuccess, tdone, owVars, cbVars, obsVars>>
  /\ UNCHANGED owLog
  /\ UNCHANGED <<testVars, utilVars>>

(* Variant of T_Shutdown that shuts the descriptor down without the test. *)
T_Shutdown_Unconditional ==
  /\ ~aborted /\ tpc = "t96"
  /\ fdShutdown' = TRUE
  /\ shutArmed' = (shutArmed \/ wc = "armed")
  /\ tpc' = "t99"
  /\ UNCHANGED <<connectVars, fdCreated, orphans, wc, adds, dels, acVars,
                 tsuccess, tdone, owVars, cbVars, aborted, enobufs, tcDecs,
                 owDecs, frees, tcRuns>>
  /\ UNCHANGED owLog
  /\ UNCHANGED <<testVars, utilVars>>

(* lines 96-98: if (ac->fd != NULL) grpc_fd_shutdown(ac->fd). *)
T_Shutdown ==
  /\ ~aborted /\ tpc = "t96"
  /\ IF ac_fd # "NULL"
       THEN /\ fdShutdown' = TRUE
            /\ shutArmed' = (shutArmed \/ wc = "armed")
       ELSE UNCHANGED <<fdShutdown, shutArmed>>
  /\ tpc' = "t99"
  /\ UNCHANGED <<connectVars, fdCreated, orphans, wc, adds, dels, acVars,
                 tsuccess, tdone, owVars, cbVars, aborted, enobufs, tcDecs,
                 owDecs, frees, tcRuns>>
  /\ UNCHANGED owLog
  /\ UNCHANGED <<testVars, utilVars>>

(* Variant of T_Unref that takes every decrement for the last one. *)
T_Unref_AlwaysDone ==
  /\ ~aborted /\ tpc = "t99"
  /\ refs' = refs - 1
  /\ tdone' = TRUE
  /\ tcDecs' = tcDecs + 1
  /\ tpc' = "t100"
  /\ UNCHANGED <<connectVars, fdVars, acState, ac_fd, mu, alarm, tsuccess,
                 owVars, cbVars, aborted, enobufs, owDecs, frees, tcRuns,
                 shutArmed>>
  /\ UNCHANGED owLog
  /\ UNCHANGED <<testVars, utilVars>>

(* line 99: done = (--ac->refs == 0). *)
T_Unref ==
  /\ ~aborted /\ tpc = "t99"
  /\ refs' = refs - 1
  /\ tdone' = (refs - 1 = 0)
  /\ tcDecs' = tcDecs + 1
  /\ tpc' = "t100"
  /\ UNCHANGED <<connectVars, fdVars, acState, ac_fd, mu, alarm, tsuccess,
                 owVars, cbVars, aborted, enobufs, owDecs, frees, tcRuns,
                 shutArmed>>
  /\ UNCHANGED owLog
  /\ UNCHANGED <<testVars, utilVars>>

(* line 100: gpr_mu_unlock(&ac->mu). *)
T_Unlock ==
  /\ ~aborted /\ tpc = "t100"
  /\ mu' = "free"
  /\ tpc' = "t101"
  /\ UNCHANGED <<connectVars, fdVars, acState, ac_fd, refs, alarm,
                 tsuccess, tdone, owVars, cbVars, obsVars>>
  /\ UNCHANGED owLog
  /\ UNCHANGED <<testVars, utilVars>>

(* Variant of T_Free in which the timer path reports the outcome itself *)
(* when it held the last reference.                                     *)
T_Free_InvokesCb ==
  /\ ~aborted /\ tpc = "t101"
  /\ IF tdone
       THEN /\ acState' = "freed" /\ frees' = frees + 1
            /\ InvokeCb("tc_on_alarm", "NULL")
       ELSE UNCHANGED <<acState, frees, cbVars>>
  /\ tpc' = "tdone"
  /\ UNCHANGED <<connectVars, fdVars, ac_fd, refs, mu, alarm, tsuccess,
                 tdone, owVars, aborted, enobufs, tcDecs, owDecs, tcRuns,
                 shutArmed>>
  /\ UNCHANGED owLog
  /\ UNCHANGED <<testVars, utilVars>>

(* lines 101-106: if (done) { destroy mu; free addr_str; free ac }; return. *)
T_Free ==
  /\ ~aborted /\ tpc = "t101"
  /\ IF tdone
       THEN acState' = "freed" /\ frees' = frees + 1
       ELSE UNCHANGED <<acState, frees>>
  /\ tpc' = "tdone"
  /\ UNCHANGED <<connectVars, fdVars, ac_fd, refs, mu, alarm, tsuccess,
                 tdone, owVars, cbVars, aborted, enobufs, tcDecs, owDecs,
                 tcRuns, shutArmed>>
  /\ UNCHANGED owLog
  /\ UNCHANGED <<testVars, utilVars>>

tc_on_alarm == T_Lock \/ T_Shutdown \/ T_Unref \/ T_Unlock \/ T_Free

----------------------------------------------------------------------------
(* The write closure of the grpc_fd as section 4.1 of the specification    *)
(* states it: one-shot, fired when the descriptor becomes writable, or     *)
(* with a failure indicator when the descriptor is shut down.              *)

(* The socket becomes writable: on_writable(ac, 1) is dispatched. *)
DispatchWritable ==
  /\ ~aborted /\ wc = "armed" /\ ~fdShutdown /\ wpc = "idle"
  /\ wc' = "unarmed"
  /\ wpc' = "w115" /\ wsuccess' = TRUE
  /\ UNCHANGED <<connectVars, fdCreated, fdShutdown, orphans, adds, dels,
                 acVars, tcVars, wfd, wep, wso, wdone, cancelSync, cbVars,
                 obsVars>>
  /\ owLog' = << >>
  /\ UNCHANGED <<testVars, utilVars>>

(* The descriptor was shut down: on_writable(ac, 0) is dispatched. *)
DispatchShutdown ==
  /\ ~aborted /\ wc = "armed" /\ fdShutdown /\ wpc = "idle"
  /\ wc' = "unarmed"
  /\ wpc' = "w115" /\ wsuccess' = FALSE
  /\ UNCHANGED <<connectVars, fdCreated, fdShutdown, orphans, adds, dels,
                 acVars, tcVars, wfd, wep, wso, wdone, cancelSync, cbVars,
                 obsVars>>
  /\ owLog' = << >>
  /\ UNCHANGED <<testVars, utilVars>>

----------------------------------------------------------------------------
(* on_writable *)

(* lines 109-117: locals; so_error = 0; ep = NULL; cb and cb_arg copied. *)
OW_Enter ==
  /\ ~aborted /\ wpc = "w115"
  /\ wso' = "0" /\ wep' = "NULL"
  /\ wpc' = "w119"
  /\ UNCHANGED <<connectVars, fdVars, acVars, tcVars, wsuccess, wfd, wdone,
                 cancelSync, cbVars, obsVars>>
  /\ UNCHANGED owLog
  /\ UNCHANGED <<testVars, utilVars>>

(* line 119: gpr_mu_lock(&ac->mu). *)
OW_Lock1 ==
  /\ ~aborted /\ wpc = "w119"
  /\ mu = "free" /\ mu' = "on_writable"
  /\ wpc' = "w120"
  /\ UNCHANGED <<connectVars, fdVars, acState, ac_fd, refs, alarm, tcVars,
                 wsuccess, wfd, wep, wso, wdone, cancelSync, cbVars, obsVars>>
  /\ UNCHANGED owLog
  /\ UNCHANGED <<testVars, utilVars>>

(* Variant of OW_Detach that leaves ac->fd attached. *)
OW_Detach_KeepsAcFd ==
  /\ ~aborted /\ wpc = "w120"
  /\ IF ac_fd = "NULL"
       THEN /\ aborted' = TRUE
            /\ UNCHANGED <<wfd, ac_fd, wpc>>
       ELSE /\ wfd' = ac_fd
            /\ ac_fd' = ac_fd
            /\ wpc' = "w123"
            /\ UNCHANGED aborted
  /\ UNCHANGED <<connectVars, fdVars, acState, refs, mu, alarm, tcVars,
                 wsuccess, wep, wso, wdone, cancelSync, cbVars, enobufs,
                 tcDecs, owDecs, frees, tcRuns, shutArmed>>
  /\ owLog' = IF ac_fd = "NULL" THEN owLog
               ELSE Append(owLog, IF mu = "on_writable" THEN "detach"
                                  ELSE "detach_unlocked")
  /\ UNCHANGED <<testVars, utilVars>>

(* lines 120-122: GPR_ASSERT(ac->fd); fd = ac->fd; ac->fd = NULL. *)
OW_Detach ==
  /\ ~aborted /\ wpc = "w120"
  /\ IF ac_fd = "NULL"
       THEN /\ aborted' = TRUE
            /\ UNCHANGED <<wfd, ac_fd, wpc>>
       ELSE /\ wfd' = ac_fd
            /\ ac_fd' = "NULL"
            /\ wpc' = "w123"
            /\ UNCHANGED aborted
  /\ UNCHANGED <<connectVars, fdVars, acState, refs, mu, alarm, tcVars,
                 wsuccess, wep, wso, wdone, cancelSync, cbVars, enobufs,
                 tcDecs, owDecs, frees, tcRuns, shutArmed>>
  /\ owLog' = IF ac_fd = "NULL" THEN owLog
               ELSE Append(owLog, IF mu = "on_writable" THEN "detach"
                                  ELSE "detach_unlocked")
  /\ UNCHANGED <<testVars, utilVars>>

(* Variant of OW_Unlock1 after which the timer is not cancelled. *)
OW_Unlock1_SkipsCancel ==
  /\ ~aborted /\ wpc = "w123"
  /\ mu' = "free"
  /\ wpc' = "w127"
  /\ UNCHANGED <<connectVars, fdVars, acState, ac_fd, refs, alarm, tcVars,
                 wsuccess, wfd, wep, wso, wdone, cancelSync, cbVars, obsVars>>
  /\ UNCHANGED owLog
  /\ UNCHANGED <<testVars, utilVars>>

(* Variant of OW_Unlock1 that keeps ac->mu over the cancel call. *)
OW_Unlock1_KeepsMu ==
  /\ ~aborted /\ wpc = "w123"
  /\ mu' = mu
  /\ wpc' = "w125"
  /\ UNCHANGED <<connectVars, fdVars, acState, ac_fd, refs, alarm, tcVars,
                 wsuccess, wfd, wep, wso, wdone, cancelSync, cbVars, obsVars>>
  /\ UNCHANGED owLog
  /\ UNCHANGED <<testVars, utilVars>>

(* line 123: gpr_mu_unlock(&ac->mu). *)
OW_Unlock1 ==
  /\ ~aborted /\ wpc = "w123"
  /\ mu' = "free"
  /\ wpc' = "w125"
  /\ UNCHANGED <<connectVars, fdVars, acState, ac_fd, refs, alarm, tcVars,
                 wsuccess, wfd, wep, wso, wdone, cancelSync, cbVars, obsVars>>
  /\ UNCHANGED owLog
  /\ UNCHANGED <<testVars, utilVars>>

(* line 125: grpc_alarm_cancel(&ac->alarm). *)
OW_Cancel ==
  /\ ~aborted /\ wpc = "w125"
  /\ \E sync \in BOOLEAN :
       /\ grpc_alarm_cancel(sync)
       /\ wpc' = IF alarm = "pending" /\ sync THEN "w125_wait" ELSE "w127"
  /\ UNCHANGED <<connectVars, fdVars, acState, ac_fd, refs, mu, tdone,
                 wsuccess, wfd, wep, wso, wdone, cbVars, aborted, enobufs,
                 tcDecs, owDecs, frees, shutArmed>>
  /\ owLog' = Append(owLog, "cancel")
  /\ UNCHANGED <<testVars, utilVars>>

(* line 125, continued: the cancel call returns once the callback it ran *)
(* on this stack has returned.                                           *)
OW_CancelReturn ==
  /\ ~aborted /\ wpc = "w125_wait"
  /\ tpc = "tdone"
  /\ wpc' = "w127"
  /\ UNCHANGED <<connectVars, fdVars, acVars, tcVars, wsuccess, wfd, wep,
                 wso, wdone, cancelSync, cbVars, obsVars>>
  /\ UNCHANGED owLog
  /\ UNCHANGED <<testVars, utilVars>>

(* line 127: gpr_mu_lock(&ac->mu). *)
OW_Lock2 ==
  /\ ~aborted /\ wpc = "w127"
  /\ mu = "free" /\ mu' = "on_writable"
  /\ wpc' = "w128"
  /\ UNCHANGED <<connectVars, fdVars, acState, ac_fd, refs, alarm, tcVars,
                 wsuccess, wfd, wep, wso, wdone, cancelSync, cbVars, obsVars>>
  /\ UNCHANGED owLog
  /\ UNCHANGED <<testVars, utilVars>>

(* Variant of OW_Inspect that inspects SO_ERROR whatever `success` is. *)
OW_Inspect_IgnoresSuccess ==
  /\ ~aborted /\ wpc = "w128"
  /\ \E e \in SoErrors :
       /\ e = "ENOBUFS" => enobufs < MaxEnobufs
       /\ wso' = e
       /\ enobufs' = IF e = "ENOBUFS" THEN enobufs + 1 ELSE enobufs
       /\ wpc' = CASE e = "getsockopt_failed" -> "w181"
                   [] e = "ENOBUFS" -> "w153"
                   [] e = "0" -> "w168"
                   [] OTHER -> "w181"
  /\ UNCHANGED <<connectVars, fdVars, acVars, tcVars, wsuccess, wfd, wep,
                 wdone, cancelSync, cbVars, aborted, tcDecs, owDecs, frees,
                 tcRuns, shutArmed>>
  /\ owLog' = Append(owLog, "inspect")
  /\ UNCHANGED <<testVars, utilVars>>

(* Variant of OW_Inspect that does not test the result of getsockopt. *)
OW_Inspect_IgnoresGetsockoptResult ==
  /\ ~aborted /\ wpc = "w128"
  /\ IF wsuccess
       THEN \E e \in SoErrors :
              /\ e = "ENOBUFS" => enobufs < MaxEnobufs
              /\ wso' = e
              /\ enobufs' = IF e = "ENOBUFS" THEN enobufs + 1 ELSE enobufs
              /\ wpc' = CASE e = "getsockopt_failed" -> "w168"
                          [] e = "ENOBUFS" -> "w153"
                          [] e = "0" -> "w168"
                          [] OTHER -> "w181"
       ELSE /\ wpc' = "w181"
            /\ UNCHANGED <<wso, enobufs>>
  /\ UNCHANGED <<connectVars, fdVars, acVars, tcVars, wsuccess, wfd, wep,
                 wdone, cancelSync, cbVars, aborted, tcDecs, owDecs, frees,
                 tcRuns, shutArmed>>
  /\ owLog' = IF wsuccess THEN Append(owLog, "inspect") ELSE owLog
  /\ UNCHANGED <<testVars, utilVars>>

(* lines 128-176: if (success) getsockopt(SO_ERROR) and the branch on its *)
(* result; else goto finish.                                              *)
OW_Inspect ==
  /\ ~aborted /\ wpc = "w128"
  /\ IF wsuccess
       THEN \E e \in SoErrors :
              /\ e = "ENOBUFS" => enobufs < MaxEnobufs
              /\ wso' = e
              /\ enobufs' = IF e = "ENOBUFS" THEN enobufs + 1 ELSE enobufs
              /\ wpc' = CASE e = "getsockopt_failed" -> "w181"
                          [] e = "ENOBUFS" -> "w153"
                          [] e = "0" -> "w168"
                          [] OTHER -> "w181"
       ELSE /\ wpc' = "w181"
            /\ UNCHANGED <<wso, enobufs>>
  /\ UNCHANGED <<connectVars, fdVars, acVars, tcVars, wsuccess, wfd, wep,
                 wdone, cancelSync, cbVars, aborted, tcDecs, owDecs, frees,
                 tcRuns, shutArmed>>
  /\ owLog' = IF wsuccess THEN Append(owLog, "inspect") ELSE owLog
  /\ UNCHANGED <<testVars, utilVars>>

(* Variant of OW_EnobufsUnlock that drops the reference of the write path. *)
OW_EnobufsUnlock_Unrefs ==
  /\ ~aborted /\ wpc = "w153"
  /\ mu' = "free" /\ refs' = refs - 1
  /\ wpc' = "w154"
  /\ UNCHANGED <<connectVars, fdVars, acState, ac_fd, alarm, tcVars,
                 wsuccess, wfd, wep, wso, wdone, cancelSync, cbVars, obsVars>>
  /\ UNCHANGED owLog
  /\ UNCHANGED <<testVars, utilVars>>

(* line 153: ENOBUFS: gpr_mu_unlock(&ac->mu). *)
OW_EnobufsUnlock ==
  /\ ~aborted /\ wpc = "w153"
  /\ mu' = "free"
  /\ wpc' = "w154"
  /\ UNCHANGED <<connectVars, fdVars, acState, ac_fd, refs, alarm, tcVars,
                 wsuccess, wfd, wep, wso, wdone, cancelSync, cbVars, obsVars>>
  /\ UNCHANGED owLog
  /\ UNCHANGED <<testVars, utilVars>>

(* Variant of OW_EnobufsRearm that also arms the deadline timer again. *)
OW_EnobufsRearm_RearmsAlarm ==
  /\ ~aborted /\ wpc = "w154"
  /\ wc' = "armed"
  /\ alarm' = "pending"
  /\ wpc' = "idle"
  /\ UNCHANGED <<connectVars, fdCreated, fdShutdown, orphans, adds, dels,
                 acState, ac_fd, refs, mu, tcVars, wsuccess, wfd, wep, wso,
                 wdone, cancelSync, cbVars, obsVars>>
  /\ UNCHANGED owLog
  /\ UNCHANGED <<testVars, utilVars>>

(* lines 154-155: grpc_fd_notify_on_write(fd, &ac->write_closure); return. *)
OW_EnobufsRearm ==
  /\ ~aborted /\ wpc = "w154"
  /\ wc' = "armed"
  /\ wpc' = "idle"
  /\ UNCHANGED <<connectVars, fdCreated, fdShutdown, orphans, adds, dels,
                 acVars, tcVars, wsuccess, wfd, wep, wso, wdone, cancelSync,
                 cbVars, obsVars>>
  /\ UNCHANGED owLog
  /\ UNCHANGED <<testVars, utilVars>>

(* Variant of OW_SuccessDelFd that leaves the descriptor in the group. *)
OW_SuccessDelFd_Missing ==
  /\ ~aborted /\ wpc = "w168"
  /\ dels' = dels
  /\ wpc' = "w169"
  /\ UNCHANGED <<connectVars, fdCreated, fdShutdown, orphans, wc, adds,
                 acVars, tcVars, wsuccess, wfd, wep, wso, wdone, cancelSync,
                 cbVars, obsVars>>
  /\ UNCHANGED owLog
  /\ UNCHANGED <<testVars, utilVars>>

(* line 168: grpc_pollset_set_del_fd(ac->interested_parties, fd). *)
OW_SuccessDelFd ==
  /\ ~aborted /\ wpc = "w168"
  /\ dels' = dels + 1
  /\ wpc' = "w169"
  /\ UNCHANGED <<connectVars, fdCreated, fdShutdown, orphans, wc, adds,
                 acVars, tcVars, wsuccess, wfd, wep, wso, wdone, cancelSync,
                 cbVars, obsVars>>
  /\ UNCHANGED owLog
  /\ UNCHANGED <<testVars, utilVars>>

(* Variant of OW_TcpCreate that does not clear the local fd. *)
OW_TcpCreate_KeepsFd ==
  /\ ~aborted /\ wpc = "w169"
  /\ wep' = "ep"
  /\ wfd' = wfd
  /\ wpc' = "w181"
  /\ UNCHANGED <<connectVars, fdVars, acVars, tcVars, wsuccess, wso, wdone,
                 cancelSync, cbVars, obsVars>>
  /\ UNCHANGED owLog
  /\ UNCHANGED <<testVars, utilVars>>

(* lines 169-171: ep = grpc_tcp_create(fd, ...); fd = NULL; goto finish. *)
OW_TcpCreate ==
  /\ ~aborted /\ wpc = "w169"
  /\ wep' = "ep"
  /\ wfd' = "NULL"
  /\ wpc' = "w181"
  /\ UNCHANGED <<connectVars, fdVars, acVars, tcVars, wsuccess, wso, wdone,
                 cancelSync, cbVars, obsVars>>
  /\ UNCHANGED owLog
  /\ UNCHANGED <<testVars, utilVars>>

(* Variant of OW_Finish that forgets grpc_fd_orphan. *)
OW_Finish_NoOrphan ==
  /\ ~aborted /\ wpc = "w181"
  /\ IF wfd # "NULL"
       THEN /\ dels' = dels + 1
            /\ wfd' = "NULL"
       ELSE UNCHANGED <<dels, wfd>>
  /\ wpc' = "w186"
  /\ UNCHANGED <<connectVars, fdCreated, fdShutdown, orphans, wc, adds,
                 acVars, tcVars, wsuccess, wep, wso, wdone, cancelSync,
                 cbVars, obsVars>>
  /\ UNCHANGED owLog
  /\ UNCHANGED <<testVars, utilVars>>

(* lines 180-185: finish: if (fd != NULL) { del_fd; orphan; fd = NULL }. *)
OW_Finish ==
  /\ ~aborted /\ wpc = "w181"
  /\ IF wfd # "NULL"
       THEN /\ dels' = dels + 1
            /\ orphans' = orphans + 1
            /\ wfd' = "NULL"
       ELSE UNCHANGED <<dels, orphans, wfd>>
  /\ wpc' = "w186"
  /\ UNCHANGED <<connectVars, fdCreated, fdShutdown, wc, adds, acVars,
                 tcVars, wsuccess, wep, wso, wdone, cancelSync, cbVars,
                 obsVars>>
  /\ UNCHANGED owLog
  /\ UNCHANGED <<testVars, utilVars>>

(* line 186: done = (--ac->refs == 0). *)
OW_Unref ==
  /\ ~aborted /\ wpc = "w186"
  /\ refs' = refs - 1
  /\ wdone' = (refs - 1 = 0)
  /\ owDecs' = owDecs + 1
  /\ wpc' = "w187"
  /\ UNCHANGED <<connectVars, fdVars, acState, ac_fd, mu, alarm, tcVars,
                 wsuccess, wfd, wep, wso, cancelSync, cbVars, aborted,
                 enobufs, tcDecs, frees, tcRuns, shutArmed>>
  /\ UNCHANGED owLog
  /\ UNCHANGED <<testVars, utilVars>>

(* Variant of OW_Unlock2 that keeps ac->mu locked. *)
OW_Unlock2_Missing ==
  /\ ~aborted /\ wpc = "w187"
  /\ mu' = mu
  /\ wpc' = "w188"
  /\ UNCHANGED <<connectVars, fdVars, acState, ac_fd, refs, alarm, tcVars,
                 wsuccess, wfd, wep, wso, wdone, cancelSync, cbVars, obsVars>>
  /\ UNCHANGED owLog
  /\ UNCHANGED <<testVars, utilVars>>

(* line 187: gpr_mu_unlock(&ac->mu). *)
OW_Unlock2 ==
  /\ ~aborted /\ wpc = "w187"
  /\ mu' = "free"
  /\ wpc' = "w188"
  /\ UNCHANGED <<connectVars, fdVars, acState, ac_fd, refs, alarm, tcVars,
                 wsuccess, wfd, wep, wso, wdone, cancelSync, cbVars, obsVars>>
  /\ UNCHANGED owLog
  /\ UNCHANGED <<testVars, utilVars>>

(* Variant of OW_Free that releases the record whatever `done` is. *)
OW_Free_Always ==
  /\ ~aborted /\ wpc = "w188"
  /\ acState' = "freed" /\ frees' = frees + 1
  /\ wpc' = "w193"
  /\ UNCHANGED <<connectVars, fdVars, ac_fd, refs, mu, alarm, tcVars,
                 owVars_locals, cbVars, aborted, enobufs, tcDecs, owDecs,
                 tcRuns, shutArmed>>
  /\ UNCHANGED owLog
  /\ UNCHANGED <<testVars, utilVars>>

(* lines 188-192: if (done) { destroy mu; free addr_str; free ac }. *)
OW_Free ==
  /\ ~aborted /\ wpc = "w188"
  /\ IF wdone
       THEN acState' = "freed" /\ frees' = frees + 1
       ELSE UNCHANGED <<acState, frees>>
  /\ wpc' = "w193"
  /\ UNCHANGED <<connectVars, fdVars, ac_fd, refs, mu, alarm, tcVars,
                 owVars_locals, cbVars, aborted, enobufs, tcDecs, owDecs,
                 tcRuns, shutArmed>>
  /\ UNCHANGED owLog
  /\ UNCHANGED <<testVars, utilVars>>

(* lines 193-194: cb(cb_arg, ep); return. *)
OW_Cb ==
  /\ ~aborted /\ wpc = "w193"
  /\ InvokeCb("on_writable", wep)
  /\ wpc' = "wdone"
  /\ UNCHANGED <<connectVars, fdVars, acVars, tcVars, owVars_locals,
                 obsVars>>
  /\ UNCHANGED owLog
  /\ UNCHANGED <<testVars, utilVars>>

on_writable ==
  \/ OW_Enter \/ OW_Lock1 \/ OW_Detach \/ OW_Unlock1 \/ OW_Cancel
  \/ OW_CancelReturn \/ OW_Lock2 \/ OW_Inspect \/ OW_EnobufsUnlock
  \/ OW_EnobufsRearm \/ OW_SuccessDelFd \/ OW_TcpCreate \/ OW_Finish
  \/ OW_Unref \/ OW_Unlock2 \/ OW_Free \/ OW_Cb

----------------------------------------------------------------------------
Next ==
  \/ grpc_tcp_client_connect
  \/ AlarmFire
  \/ tc_on_alarm
  \/ DispatchWritable
  \/ DispatchShutdown
  \/ on_writable

Spec == Init /\ [][Next]_vars

(* The scheduling the reactor gives: every statement of a running function *)
(* is eventually executed, an armed timer eventually fires unless it is    *)
(* cancelled, and a closure armed on a shut-down descriptor is eventually  *)
(* dispatched. Whether the peer ever makes the socket writable is not      *)
(* assumed.                                                                *)
FairSpec ==
  /\ Spec
  /\ WF_vars(grpc_tcp_client_connect)
  /\ WF_vars(AlarmFire)
  /\ WF_vars(tc_on_alarm)
  /\ WF_vars(DispatchShutdown)
  /\ WF_vars(on_writable)

----------------------------------------------------------------------------
(* Properties of the connector *)

(* C1: on every path and under every interleaving of on_writable and     *)
(* tc_on_alarm, the caller's cb is never invoked more than once for the  *)
(* attempt.                                                              *)
C1_CbAtMostOnce == cbCount <= 1

(* A pending attempt whose timer fired and ran to completion and whose   *)
(* write path reported: both paths have run and cb was invoked once.     *)
C1_Witness ==
  /\ alarm = "fired" /\ tpc = "tdone"
  /\ wpc = "wdone" /\ cbCount = 1 /\ cbFrom = "on_writable"

(* C2: every pending attempt eventually invokes cb, and when the peer    *)
(* accepted (on_writable ran with success and SO_ERROR == 0) that        *)
(* invocation carries a non-null endpoint.                               *)
C2_PendingEventuallyCb ==
  /\ (acState = "live") ~> (cbCount >= 1)
  /\ []((cbCount >= 1 /\ cbFrom = "on_writable" /\ wsuccess /\ wso = "0")
          => cbEp = "ep")

(* C3 as stated: cb runs only after grpc_tcp_client_connect has          *)
(* returned, on every outcome.                                           *)
C3_CbOnlyAfterReturn == cbCount >= 1 => cpc = "returned"

(* C3 as amended: on the pending path cb is invoked only by on_writable, *)
(* after grpc_tcp_client_connect has released ac->mu and is at its final *)
(* cleanup or has returned; on socket-preparation failure, immediate     *)
(* success and immediate connect error cb is invoked by                  *)
(* grpc_tcp_client_connect itself, before it returns.                    *)
C3_CbReentrantOnlyWhenSynchronous ==
  [][cbCount' > cbCount =>
       IF err = "inprogress"
         THEN wpc = "w193" /\ cbFrom' = "on_writable"
              /\ cpc \in {"c274", "returned"}
         ELSE cpc \in {"c227", "c242", "c249"} /\ cbFrom' = "connect"
              /\ cpc' # "returned"]_vars

(* cb has been invoked by grpc_tcp_client_connect, which has not yet     *)
(* returned.                                                             *)
C3_Witness == cbCount = 1 /\ cbFrom = "connect" /\ cpc \in {"c228", "c274"}

(* C4: after on_writable saw SO_ERROR == ENOBUFS and re-armed the write  *)
(* closure, the next dispatch of on_writable is processed normally (its  *)
(* entry assertion holds) and the attempt resolves with cb invoked       *)
(* exactly once.                                                         *)
C4_EnobufsRecovered == enobufs >= 1 => (~aborted /\ cbCount <= 1)

(* C5 as stated: when the deadline timer fired before the write path     *)
(* resolved the attempt, the descriptor was shut down, on_writable ran   *)
(* with a failure indicator and cb received NULL.                        *)
C5_FiredTimerYieldsNull ==
  (alarm = "fired" /\ cbCount >= 1 /\ cbFrom = "on_writable")
    => (fdShutdown /\ ~wsuccess /\ cbEp = "NULL")

(* C5 as amended: when tc_on_alarm shuts the descriptor down while the   *)
(* write closure is still armed (not yet dispatched), on_writable is     *)
(* then dispatched with a failure indicator and cb fires exactly once,   *)
(* with a NULL endpoint.                                                 *)
C5_ShutdownWhileArmedYieldsNull ==
  /\ [](shutArmed => /\ cbCount <= 1
                     /\ (wpc # "idle" => ~wsuccess)
                     /\ (cbCount = 1 => cbEp = "NULL"))
  /\ (shutArmed ~> (cbCount = 1))

(* The timer shut the descriptor down under an armed closure and cb has  *)
(* reported the failure.                                                 *)
C5_Witness ==
  shutArmed /\ alarm = "fired" /\ cbCount = 1 /\ cbEp = "NULL"

(* C6: on every terminal connect failure the grpc_fd is orphaned before  *)
(* cb is invoked with a NULL endpoint.                                   *)
C6_OrphanedBeforeFailureReported ==
  (cbCount >= 1 /\ cbEp = "NULL" /\ fdCreated) => orphans = 1

(* on_writable reported a refused connection on an orphaned descriptor.  *)
C6_Witness ==
  /\ cbCount = 1 /\ cbEp = "NULL" /\ cbFrom = "on_writable"
  /\ wso = "ECONNREFUSED" /\ orphans = 1

(* C7: cb receives a non-null endpoint exactly when connect succeeded    *)
(* synchronously or on_writable ran with success and SO_ERROR == 0; in   *)
(* every other terminal outcome, deadline expiry and connection refused  *)
(* alike, it receives NULL.                                              *)
C7_BinaryOutcome ==
  cbCount >= 1 =>
    /\ cbEp \in {"ep", "NULL"}
    /\ cbEp = "ep" <=>
         \/ cbFrom = "connect" /\ err = "ok"
         \/ cbFrom = "on_writable" /\ wsuccess /\ wso = "0"

(* A timed-out attempt: the timer shut the descriptor down, on_writable  *)
(* ran with the failure indicator and cb received NULL.                  *)
C7_Witness ==
  /\ cbCount = 1 /\ cbEp = "NULL" /\ cbFrom = "on_writable"
  /\ fdShutdown /\ ~wsuccess

(* C8: refs starts at 2, the timer path and the write path each          *)
(* decrement it at most once, it never drops below 0, and the record is  *)
(* released exactly once, only when refs has reached 0 after both paths  *)
(* made their decrement; once both paths have finished it has been       *)
(* released.                                                             *)
C8_RefCount ==
  acState # "none" =>
    /\ refs = 2 - tcDecs - owDecs
    /\ tcDecs <= 1 /\ owDecs <= 1
    /\ refs >= 0
    /\ frees <= 1
    /\ (frees = 1 <=> acState = "freed")
    /\ (frees = 1 => refs = 0 /\ tcDecs = 1 /\ owDecs = 1)
    /\ ((tpc = "tdone" /\ wpc = "wdone") => frees = 1)

(* Both paths have run and the record has been released. *)
C8_Witness ==
  tpc = "tdone" /\ wpc = "wdone" /\ frees = 1 /\ refs = 0

(* C9 as stated: whenever cb is invoked for a pending attempt, refs has  *)
(* already reached 0 by the invoking path's own decrement.               *)
C9_CbByLastReference ==
  (cbCount >= 1 /\ cbFrom = "on_writable") => (refs = 0 /\ wdone)

(* C9 as amended: for a pending attempt cb is always invoked by          *)
(* on_writable, after its own decrement of refs, whether or not that     *)
(* decrement reached 0; reaching 0 decides only which path releases the  *)
(* record.                                                               *)
C9_CbByWritePath ==
  (cbCount >= 1 /\ acState # "none") =>
    /\ cbFrom = "on_writable"
    /\ owDecs = 1
    /\ refs = (IF wdone THEN 0 ELSE 1 - tcDecs)
    /\ (frees = 1 => (wdone # tdone))
    /\ (acState = "freed" /\ ~wdone => tpc = "tdone" /\ tdone)

(* cb has been invoked while the timer path still holds its reference. *)
C9_Witness ==
  cbCount = 1 /\ cbFrom = "on_writable" /\ refs = 1 /\ acState = "live"

(* C10: no step of tc_on_alarm invokes cb; it at most shuts the          *)
(* descriptor down, decrements refs and releases the record; cb is       *)
(* invoked only by on_writable or by grpc_tcp_client_connect.            *)
C10_TimerNeverInvokesCb ==
  [][/\ (tpc # "idle" /\ tpc' # tpc) =>
          UNCHANGED <<cbVars, orphans, adds, dels, wc, ac_fd, wfd, wep>>
     /\ cbCount' > cbCount =>
          /\ wpc = "w193" \/ cpc \in {"c227", "c242", "c249"}
          /\ cbFrom' \in {"on_writable", "connect"}]_vars

(* tc_on_alarm held the last reference and released the record, after    *)
(* on_writable had already reported.                                     *)
C10_Witness ==
  tpc = "tdone" /\ tdone /\ frees = 1 /\ cbCount = 1

(* Statements that read or write ac->fd or ac->refs, by function: line   *)
(* 271 of grpc_tcp_client_connect, lines 96 and 99 of tc_on_alarm, lines *)
(* 120-122 and 186 of on_writable.                                       *)
ConnectAccessPcs == {"c271"}
TimerAccessPcs == {"t96", "t99"}
WriteAccessPcs == {"w120", "w186"}

(* The record is shared once the timer or the write closure was armed. *)
Shared == alarm # "unarmed" \/ wc = "armed" \/ wpc # "idle"

(* C11: once the record is shared, every statement of tc_on_alarm,       *)
(* on_writable or grpc_tcp_client_connect that reads or writes ac->fd or *)
(* ac->refs is executed with ac->mu held by that function; the unlocked  *)
(* initialisation of the record (lines 255-265) precedes the sharing.    *)
C11_FdAndRefsUnderMu ==
  /\ cpc \in {"c255", "c267"} => ~Shared
  /\ (acState # "none" /\ Shared) =>
       /\ cpc \in ConnectAccessPcs => mu = "connect"
       /\ tpc \in TimerAccessPcs => mu = "tc_on_alarm"
       /\ wpc \in WriteAccessPcs => mu = "on_writable"

(* tc_on_alarm is about to test ac->fd under the lock while on_writable  *)
(* waits for the lock.                                                   *)
C11_Witness == tpc = "t96" /\ mu = "tc_on_alarm" /\ wpc = "w119"

(* C12: at every invocation of cb for a pending attempt, ac->mu is not   *)
(* held by the invoking function on_writable.                            *)
C12_CbOutsideLock ==
  [][(cbCount' > cbCount /\ acState # "none")
       => (wpc = "w193" /\ mu # "on_writable")]_vars

(* cb has been invoked by on_writable while tc_on_alarm holds the lock. *)
C12_Witness ==
  cbCount = 1 /\ cbFrom = "on_writable" /\ mu = "tc_on_alarm"

(* C13: for every pending attempt tc_on_alarm is started exactly once,   *)
(* by the firing of the timer or by grpc_alarm_cancel; a cancel issued   *)
(* when the timer is no longer pending starts nothing.                   *)
C13_TimerCallbackOnce ==
  /\ [](tcRuns <= 1)
  /\ []((alarm \in {"fired", "cancelled"}) <=> (tcRuns = 1))
  /\ [][(wpc = "w125" /\ wpc' # wpc /\ alarm # "pending")
          => UNCHANGED <<alarm, tcVars, tcRuns>>]_vars
  /\ ((alarm = "pending") ~> (tcRuns = 1))

(* on_writable has cancelled a timer that had already fired: one run. *)
C13_Witness ==
  alarm = "fired" /\ wpc = "w127" /\ tcRuns = 1 /\ owLog = <<"detach", "cancel">>

(* grpc_tcp_client_connect took the socket-preparation failure exit. *)
PrepareFailed ==
  cpc \in {"c227", "c228"} \/ (cpc = "returned" /\ err = "unset")

(* C14: on socket-preparation failure the raw descriptor, if one was     *)
(* opened, is closed; no grpc_fd, record, timer or interest-group        *)
(* registration is created, connect(2) is not issued, and cb is invoked  *)
(* with NULL.                                                            *)
C14_PrepareFailureLeakFree ==
  PrepareFailed =>
    /\ sockfd \in {"none", "closed"}
    /\ err = "unset"
    /\ ~fdCreated /\ acState = "none" /\ alarm = "unarmed"
    /\ wc = "unarmed" /\ adds = 0 /\ tcRuns = 0 /\ wpc = "idle"
    /\ cpc # "c227" => (cbCount = 1 /\ cbEp = "NULL" /\ cbFrom = "connect")

(* An option-setting step failed: the descriptor was closed and cb got   *)
(* NULL.                                                                 *)
C14_Witness ==
  cpc = "returned" /\ sockfd = "closed" /\ cbCount = 1 /\ cbEp = "NULL"

(* C15: when connect(2) succeeds synchronously the attempt resolves with *)
(* an endpoint wrapping the descriptor, and no record is allocated, no   *)
(* timer and no write closure is armed, and the descriptor is never      *)
(* added to the interest group.                                          *)
C15_ImmediateSuccessFrame ==
  (err = "ok" /\ cpc \in {"c242", "c274", "returned"}) =>
    /\ fdCreated /\ sockfd = "open"
    /\ acState = "none" /\ alarm = "unarmed" /\ wc = "unarmed"
    /\ adds = 0 /\ dels = 0 /\ orphans = 0 /\ ~fdShutdown
    /\ tcRuns = 0 /\ wpc = "idle"
    /\ cpc # "c242" => (cbCount = 1 /\ cbEp = "ep" /\ cbFrom = "connect")

(* The call returned after a synchronous success reported an endpoint. *)
C15_Witness ==
  err = "ok" /\ cpc = "returned" /\ cbCount = 1 /\ cbEp = "ep"

(* s is a prefix of t. *)
IsPrefix(s, t) ==
  Len(s) <= Len(t) /\ \A i \in 1..Len(s) : s[i] = t[i]

(* C18: in every run of on_writable the descriptor is detached under    *)
(* ac->mu, then the timer is cancelled, and only after the cancel call   *)
(* has returned is SO_ERROR inspected.                                   *)
C18_DetachCancelInspect ==
  /\ IsPrefix(owLog, <<"detach", "cancel", "inspect">>)
  /\ wpc \in {"w127", "w128"} =>
       /\ owLog = <<"detach", "cancel">>
       /\ cancelSync => tpc = "tdone"
  /\ wpc \in {"w153", "w168"} => owLog = <<"detach", "cancel", "inspect">>

(* SO_ERROR was read as 0 after the detach and the cancel. *)
C18_Witness ==
  wpc = "w168" /\ wso = "0" /\ owLog = <<"detach", "cancel", "inspect">>

(* C19: grpc_fd_shutdown is called only by tc_on_alarm holding ac->mu    *)
(* with ac->fd still attached; once on_writable has detached the         *)
(* descriptor, no step of tc_on_alarm shuts it down or touches the       *)
(* descriptor or the endpoint built from it.                             *)
C19_LateTimerHarmless ==
  [][/\ fdShutdown' # fdShutdown =>
          (tpc = "t96" /\ mu = "tc_on_alarm" /\ ac_fd = "fdobj")
     /\ (ac_fd = "NULL" /\ tpc # "idle" /\ tpc' # tpc) =>
          UNCHANGED <<fdVars, wfd, wep, cbVars>>]_vars

(* A timer that fired late went past its test of ac->fd without a        *)
(* shutdown, on_writable holding the detached descriptor.                *)
C19_Witness ==
  /\ alarm = "fired" /\ tpc = "t99" /\ ac_fd = "NULL" /\ wfd = "fdobj"
  /\ ~fdShutdown

(* C20 as stated: when grpc_tcp_client_connect returns on the            *)
(* would-block path, the descriptor is in the interest group, the record *)
(* holds the descriptor with refs == 2, the timer has been armed and the *)
(* write closure has been armed; a record exists on no other path.       *)
C20_RecordIntactAtReturn ==
  /\ [][(cpc = "c274" /\ cpc' = "returned" /\ err = "inprogress") =>
          /\ adds = 1 /\ acState = "live"
          /\ refs = 2 /\ ac_fd = "fdobj"
          /\ alarm # "unarmed"
          /\ wc = "armed" \/ wpc # "idle"]_vars
  /\ [](acState # "none" => err = "inprogress")

(* C20 as amended: on the would-block path, when                         *)
(* grpc_tcp_client_connect releases ac->mu (line 272) the descriptor is  *)
(* in the interest group, the record holds the descriptor with           *)
(* refs == 2, the timer has been armed with tc_on_alarm and the write    *)
(* closure with on_writable, neither callback having got past its lock   *)
(* of ac->mu; a record is created on no other path.                      *)
C20_RecordIntactAtUnlock ==
  /\ [][(cpc = "c272" /\ cpc' # cpc) =>
          /\ err = "inprogress"
          /\ adds = 1 /\ dels = 0 /\ acState = "live"
          /\ refs = 2 /\ ac_fd = "fdobj"
          /\ alarm \in {"pending", "fired"}
          /\ tpc \in {"idle", "t95"}
          /\ wc = "armed" \/ wpc \in {"w115", "w119"}
          /\ cbCount = 0]_vars
  /\ [](acState # "none" => err = "inprogress")

(* The call has released the lock with timer and closure both armed. *)
C20_Witness ==
  /\ cpc = "c274" /\ err = "inprogress" /\ adds = 1 /\ refs = 2
  /\ ac_fd = "fdobj" /\ alarm = "pending" /\ wc = "armed"

----------------------------------------------------------------------------
(* test/core/iomgr/fd_posix_test.c: main runs test_grpc_fd and then      *)
(* test_grpc_fd_change on the one polling thread; callbacks run inside   *)
(* its grpc_pollset_work calls, one at a time.                           *)

(* main is inside a grpc_pollset_work call of one of its wait loops. *)
InWork == mpc \in {"m381", "m382", "m452", "m472"} /\ rpc = "none"

(* lines 377-378: server_init(&sv); port = server_start(&sv). *)
M_ServerStart ==
  /\ ~testAborted /\ mpc = "m377" /\ rpc = "none"
  /\ sv' = [em_fd |-> grpc_fd_notify_on(grpc_fd_create, "listen_cb"),
            read_bytes_total |-> 0, done |-> 0]
  /\ mpc' = "m379"
  /\ UNCHANGED <<rpc, rsuccess, loc, se, cl, net, chg, testAborted, connVars, utilVars>>

(* lines 379-380: client_init(&cl); client_start(&cl, port), which       *)
(* connects, creates the grpc_fd and calls client_session_write(cl, 1).  *)
M_ClientStart ==
  /\ ~testAborted /\ mpc = "m379" /\ rpc = "none"
  /\ cl' = [em_fd |-> grpc_fd_create, write_bytes_total |-> 0,
            client_write_cnt |-> 0, done |-> 0]
  /\ net' = [net EXCEPT !.pendingConn = 1]
  /\ rpc' = "csw302" /\ rsuccess' = TRUE
  /\ mpc' = "m381"
  /\ UNCHANGED <<loc, sv, se, chg, testAborted, connVars, utilVars>>

(* lines 359-367: client_wait_and_shutdown leaves its loop on cl->done. *)
M_ClientWaitExit ==
  /\ ~testAborted /\ mpc = "m381" /\ rpc = "none"
  /\ cl.done = 1
  /\ mpc' = "m382"
  /\ UNCHANGED <<rpc, rsuccess, loc, sv, se, cl, net, chg, testAborted,
                 connVars, utilVars>>

(* lines 250-258: server_wait_and_shutdown leaves its loop on sv->done. *)
M_ServerWaitExit ==
  /\ ~testAborted /\ mpc = "m382" /\ rpc = "none"
  /\ sv.done = 1
  /\ mpc' = "m383"
  /\ UNCHANGED <<rpc, rsuccess, loc, sv, se, cl, net, chg, testAborted,
                 connVars, utilVars>>

(* line 383: GPR_ASSERT(sv.read_bytes_total == cl.write_bytes_total). *)
M_AssertTotals ==
  /\ ~testAborted /\ mpc = "m383" /\ rpc = "none"
  /\ IF sv.read_bytes_total = cl.write_bytes_total
       THEN mpc' = "m427" /\ UNCHANGED testAborted
       ELSE testAborted' = TRUE /\ UNCHANGED mpc
  /\ UNCHANGED <<rpc, rsuccess, loc, sv, se, cl, net, chg, connVars, utilVars>>

(* The kernel moves bytes of the connection from the client's send       *)
(* buffer to the server's receive buffer.                                *)
K_Transfer ==
  /\ ~testAborted
  /\ net.snd > 0 /\ net.rcv < RcvBufCap
  /\ \E k \in 1..Min(net.snd, RcvBufCap - net.rcv) :
       net' = [net EXCEPT !.snd = @ - k, !.rcv = @ + k]
  /\ UNCHANGED <<mpc, rpc, rsuccess, loc, sv, se, cl, chg, testAborted,
                 connVars, utilVars>>

(* grpc_pollset_work dispatches the armed read callback of the listening *)
(* descriptor: a connection is pending, or the descriptor was shut down. *)
D_Listen ==
  /\ ~testAborted /\ InWork
  /\ sv.em_fd.closure = "listen_cb"
  /\ net.pendingConn > 0 \/ sv.em_fd.shutdown
  /\ sv' = [sv EXCEPT !.em_fd.closure = "none"]
  /\ rpc' = "lcb198" /\ rsuccess' = ~sv.em_fd.shutdown
  /\ UNCHANGED <<mpc, loc, se, cl, net, chg, testAborted, connVars, utilVars>>

(* ... the armed read callback of the session: bytes or end-of-stream    *)
(* are there to read.                                                    *)
D_SessionRead ==
  /\ ~testAborted /\ InWork
  /\ se.em_fd.closure = "session_read_cb"
  /\ net.rcv > 0 \/ (net.closed /\ net.snd = 0) \/ se.em_fd.shutdown
  /\ se' = [se EXCEPT !.em_fd.closure = "none"]
  /\ rpc' = "srd139" /\ rsuccess' = ~se.em_fd.shutdown
  /\ UNCHANGED <<mpc, loc, sv, cl, net, chg, testAborted, connVars, utilVars>>

(* ... the armed write callback of the client: the send buffer has room. *)
D_ClientWrite ==
  /\ ~testAborted /\ InWork
  /\ cl.em_fd.closure = "client_session_write"
  /\ net.snd < SndBufCap \/ cl.em_fd.shutdown
  /\ cl' = [cl EXCEPT !.em_fd.closure = "none"]
  /\ rpc' = "csw302" /\ rsuccess' = ~cl.em_fd.shutdown
  /\ UNCHANGED <<mpc, loc, sv, se, net, chg, testAborted, connVars, utilVars>>

(* ... the armed read callback of test_grpc_fd_change's descriptor. *)
D_ChangeRead ==
  /\ ~testAborted /\ InWork
  /\ chg.em_fd.closure # "none"
  /\ chg.data > 0
  /\ chg' = [chg EXCEPT !.em_fd.closure = "none"]
  /\ rpc' = IF chg.em_fd.closure = "first_closure" THEN "frc398"
            ELSE "src407"
  /\ rsuccess' = TRUE
  /\ UNCHANGED <<mpc, loc, sv, se, cl, net, testAborted, connVars, utilVars>>

(* lines 288-293: client_session_shutdown_cb: orphan the descriptor      *)
(* (closing the client end), done = 1, kick.                             *)
client_session_shutdown_cb ==
  /\ cl' = [cl EXCEPT !.em_fd = grpc_fd_orphan(@), !.done = 1]
  /\ net' = [net EXCEPT !.closed = TRUE]

(* lines 296-307: client_session_write: entry and the !success exit. *)
CSW_Entry ==
  /\ ~testAborted /\ rpc = "csw302"
  /\ IF ~rsuccess
       THEN client_session_shutdown_cb /\ rpc' = "none"
       ELSE rpc' = "csw310" /\ UNCHANGED <<cl, net>>
  /\ UNCHANGED <<mpc, rsuccess, loc, sv, se, chg, testAborted, connVars, utilVars>>

(* lines 309-312: one write(fd, write_buf, CLIENT_WRITE_BUF_SIZE) of the *)
(* loop: some bytes are taken, or -1 with EAGAIN ends the loop.          *)
CSW_Write ==
  /\ ~testAborted /\ rpc = "csw310"
  /\ IF net.snd < SndBufCap
       THEN \E k \in 1..Min(CLIENT_WRITE_BUF_SIZE, SndBufCap - net.snd) :
              /\ net' = [net EXCEPT !.snd = @ + k]
              /\ cl' = [cl EXCEPT !.write_bytes_total = @ + k]
              /\ rpc' = rpc
       ELSE rpc' = "csw314" /\ UNCHANGED <<net, cl>>
  /\ UNCHANGED <<mpc, rsuccess, loc, sv, se, chg, testAborted, connVars, utilVars>>

(* lines 314-324: on EAGAIN re-arm notify_on_write and count, or shut    *)
(* the client down after CLIENT_TOTAL_WRITE_CNT re-arms.                 *)
CSW_Eagain ==
  /\ ~testAborted /\ rpc = "csw314"
  /\ IF cl.client_write_cnt < CLIENT_TOTAL_WRITE_CNT
       THEN /\ cl' = [cl EXCEPT
                        !.em_fd = grpc_fd_notify_on(@, "client_session_write"),
                        !.client_write_cnt = @ + 1]
            /\ UNCHANGED net
       ELSE client_session_shutdown_cb
  /\ rpc' = "none"
  /\ UNCHANGED <<mpc, rsuccess, loc, sv, se, chg, testAborted, connVars, utilVars>>

(* lines 124-125: session_shutdown_cb: grpc_fd_orphan(se->em_fd, NULL,   *)
(* "a"); gpr_free(se).                                                   *)
SSD_Orphan ==
  /\ ~testAborted /\ rpc = "ssd124"
  /\ se' = [se EXCEPT !.em_fd = grpc_fd_orphan(@), !.allocated = FALSE]
  /\ rpc' = "ssd127"
  /\ UNCHANGED <<mpc, rsuccess, loc, sv, cl, net, chg, testAborted, connVars, utilVars>>

(* line 127: session_shutdown_cb: grpc_fd_shutdown(sv->em_fd). *)
SSD_ShutdownListen ==
  /\ ~testAborted /\ rpc = "ssd127"
  /\ sv' = [sv EXCEPT !.em_fd = grpc_fd_shutdown(@)]
  /\ rpc' = "none"
  /\ UNCHANGED <<mpc, rsuccess, loc, se, cl, net, chg, testAborted, connVars, utilVars>>

(* lines 120-128: session_shutdown_cb. *)
session_shutdown_cb == SSD_Orphan \/ SSD_ShutdownListen

(* lines 131-142: session_read_cb: entry and the !success exit. *)
SRD_Entry ==
  /\ ~testAborted /\ rpc = "srd139"
  /\ IF ~rsuccess
       THEN rpc' = "ssd124" /\ UNCHANGED loc
       ELSE /\ rpc' = "srd145"
            /\ loc' = [read_once |-> 0, read_total |-> 0]
  /\ UNCHANGED <<mpc, rsuccess, sv, se, cl, net, chg, testAborted, connVars, utilVars>>

(* lines 144-147: one read(fd, read_buf, BUF_SIZE) of the loop: some     *)
(* bytes, 0 at end-of-stream, or -1 with EAGAIN.                         *)
SRD_Read ==
  /\ ~testAborted /\ rpc = "srd145"
  /\ IF net.rcv > 0
       THEN \E k \in 1..Min(BUF_SIZE, net.rcv) :
              /\ net' = [net EXCEPT !.rcv = @ - k]
              /\ loc' = [read_once |-> k, read_total |-> loc.read_total + k]
              /\ rpc' = rpc
       ELSE /\ loc' = [loc EXCEPT !.read_once =
                         IF net.closed /\ net.snd = 0 THEN 0 ELSE -1]
            /\ rpc' = "srd148"
            /\ UNCHANGED net
  /\ UNCHANGED <<mpc, rsuccess, sv, se, cl, chg, testAborted, connVars, utilVars>>

SRD_Account_Overwrites ==
  /\ ~testAborted /\ rpc = "srd148"
  /\ sv' = [sv EXCEPT !.read_bytes_total = loc.read_total]
  /\ rpc' = "srd154"
  /\ UNCHANGED <<mpc, rsuccess, loc, se, cl, net, chg, testAborted, connVars, utilVars>>

(* line 148: se->sv->read_bytes_total += read_total. *)
SRD_Account ==
  /\ ~testAborted /\ rpc = "srd148"
  /\ sv' = [sv EXCEPT !.read_bytes_total = @ + loc.read_total]
  /\ rpc' = "srd154"
  /\ UNCHANGED <<mpc, rsuccess, loc, se, cl, net, chg, testAborted, connVars, utilVars>>

(* Variant of SRD_Finish that does not arm notify_on_read again. *)
SRD_Finish_NoRearm ==
  /\ ~testAborted /\ rpc = "srd154"
  /\ IF loc.read_once = 0
       THEN rpc' = "ssd124" /\ UNCHANGED se
       ELSE /\ se' = se
            /\ rpc' = "none"
  /\ UNCHANGED <<mpc, rsuccess, loc, sv, cl, net, chg, testAborted, connVars, utilVars>>

(* lines 154-171: end-of-stream calls session_shutdown_cb; EAGAIN        *)
(* re-arms notify_on_read.                                               *)
SRD_Finish ==
  /\ ~testAborted /\ rpc = "srd154"
  /\ IF loc.read_once = 0
       THEN rpc' = "ssd124" /\ UNCHANGED se
       ELSE /\ se' = [se EXCEPT
                        !.em_fd = grpc_fd_notify_on(@, "session_read_cb")]
            /\ rpc' = "none"
  /\ UNCHANGED <<mpc, rsuccess, loc, sv, cl, net, chg, testAborted, connVars, utilVars>>

(* Variant of LSD_Orphan that leaves the listening descriptor alone. *)
LSD_Orphan_Skipped ==
  /\ ~testAborted /\ rpc = "lsd179"
  /\ sv' = sv
  /\ rpc' = "lsd182"
  /\ UNCHANGED <<mpc, rsuccess, loc, se, cl, net, chg, testAborted, connVars, utilVars>>

(* line 179: listen_shutdown_cb: grpc_fd_orphan(sv->em_fd, NULL, "b"). *)
LSD_Orphan ==
  /\ ~testAborted /\ rpc = "lsd179"
  /\ sv' = [sv EXCEPT !.em_fd = grpc_fd_orphan(@)]
  /\ rpc' = "lsd182"
  /\ UNCHANGED <<mpc, rsuccess, loc, se, cl, net, chg, testAborted, connVars, utilVars>>

(* lines 181-184: listen_shutdown_cb: sv->done = 1; grpc_pollset_kick. *)
LSD_Done ==
  /\ ~testAborted /\ rpc = "lsd182"
  /\ sv' = [sv EXCEPT !.done = 1]
  /\ rpc' = "none"
  /\ UNCHANGED <<mpc, rsuccess, loc, se, cl, net, chg, testAborted, connVars, utilVars>>

(* lines 176-185: listen_shutdown_cb. *)
listen_shutdown_cb == LSD_Orphan \/ LSD_Done

(* lines 188-217: listen_cb: on failure listen_shutdown_cb; else accept, *)
(* create the session, arm its read callback and re-arm the listener.    *)
LCB ==
  /\ ~testAborted /\ rpc = "lcb198"
  /\ IF ~rsuccess
       THEN rpc' = "lsd179" /\ UNCHANGED <<sv, se, net>>
       ELSE /\ net' = [net EXCEPT !.pendingConn = @ - 1]
            /\ se' = [em_fd |-> grpc_fd_notify_on(grpc_fd_create,
                                                  "session_read_cb"),
                      allocated |-> TRUE]
            /\ sv' = [sv EXCEPT !.em_fd = grpc_fd_notify_on(@, "listen_cb")]
            /\ rpc' = "none"
  /\ UNCHANGED <<mpc, rsuccess, loc, cl, chg, testAborted, connVars, utilVars>>

upload ==
  \/ M_ServerStart \/ M_ClientStart \/ M_ClientWaitExit \/ M_ServerWaitExit
  \/ M_AssertTotals \/ K_Transfer \/ D_Listen \/ D_SessionRead
  \/ D_ClientWrite \/ CSW_Entry \/ CSW_Write \/ CSW_Eagain \/ SRD_Entry
  \/ SRD_Read \/ SRD_Account \/ SRD_Finish \/ session_shutdown_cb \/ LCB
  \/ listen_shutdown_cb

(* lines 427-442: test_grpc_fd_change: closures, change data, socket     *)
(* pair, grpc_fd_create, grpc_pollset_add_fd.                            *)
M_ChangeSetup ==
  /\ ~testAborted /\ mpc = "m427" /\ rpc = "none"
  /\ chg' = [em_fd |-> grpc_fd_create, data |-> 0, a |-> "NULL",
             b |-> "NULL", firstRuns |-> 0, secondRuns |-> 0]
  /\ mpc' = "m445"
  /\ UNCHANGED <<rpc, rsuccess, loc, sv, se, cl, net, testAborted, connVars, utilVars>>

(* line 445: grpc_fd_notify_on_read(em_fd, &first_closure). *)
M_ArmFirst ==
  /\ ~testAborted /\ mpc = "m445" /\ rpc = "none"
  /\ chg' = [chg EXCEPT !.em_fd = grpc_fd_notify_on(@, "first_closure")]
  /\ mpc' = "m447"
  /\ UNCHANGED <<rpc, rsuccess, loc, sv, se, cl, net, testAborted, connVars, utilVars>>

(* lines 446-448: write one byte to the peer end. *)
M_WriteFirst ==
  /\ ~testAborted /\ mpc = "m447" /\ rpc = "none"
  /\ chg' = [chg EXCEPT !.data = @ + 1]
  /\ mpc' = "m452"
  /\ UNCHANGED <<rpc, rsuccess, loc, sv, se, cl, net, testAborted, connVars, utilVars>>

(* lines 451-458: the loop ends once a.cb_that_ran is set;               *)
(* GPR_ASSERT(a.cb_that_ran == first_read_callback).                     *)
M_WaitFirstExit ==
  /\ ~testAborted /\ mpc = "m452" /\ rpc = "none"
  /\ chg.a # "NULL"
  /\ IF chg.a = "first_read_callback"
       THEN mpc' = "m461" /\ UNCHANGED testAborted
       ELSE testAborted' = TRUE /\ UNCHANGED mpc
  /\ UNCHANGED <<rpc, rsuccess, loc, sv, se, cl, net, chg, connVars, utilVars>>

(* lines 461-462: read(sv[0], &data, 1); GPR_ASSERT(result == 1). *)
M_Drain ==
  /\ ~testAborted /\ mpc = "m461" /\ rpc = "none"
  /\ IF chg.data > 0
       THEN /\ chg' = [chg EXCEPT !.data = @ - 1]
            /\ mpc' = "m466" /\ UNCHANGED testAborted
       ELSE testAborted' = TRUE /\ UNCHANGED <<mpc, chg>>
  /\ UNCHANGED <<rpc, rsuccess, loc, sv, se, cl, net, connVars, utilVars>>

M_ArmSecond_ArmsFirst ==
  /\ ~testAborted /\ mpc = "m466" /\ rpc = "none"
  /\ chg' = [chg EXCEPT !.em_fd = grpc_fd_notify_on(@, "first_closure")]
  /\ mpc' = "m468"
  /\ UNCHANGED <<rpc, rsuccess, loc, sv, se, cl, net, testAborted, connVars, utilVars>>

(* line 466: grpc_fd_notify_on_read(em_fd, &second_closure). *)
M_ArmSecond ==
  /\ ~testAborted /\ mpc = "m466" /\ rpc = "none"
  /\ chg' = [chg EXCEPT !.em_fd = grpc_fd_notify_on(@, "second_closure")]
  /\ mpc' = "m468"
  /\ UNCHANGED <<rpc, rsuccess, loc, sv, se, cl, net, testAborted, connVars, utilVars>>

(* lines 467-469: write one byte to the peer end again. *)
M_WriteSecond ==
  /\ ~testAborted /\ mpc = "m468" /\ rpc = "none"
  /\ chg' = [chg EXCEPT !.data = @ + 1]
  /\ mpc' = "m472"
  /\ UNCHANGED <<rpc, rsuccess, loc, sv, se, cl, net, testAborted, connVars, utilVars>>

(* lines 471-479: the loop ends once b.cb_that_ran is set;               *)
(* GPR_ASSERT(b.cb_that_ran == second_read_callback).                    *)
M_WaitSecondExit ==
  /\ ~testAborted /\ mpc = "m472" /\ rpc = "none"
  /\ chg.b # "NULL"
  /\ IF chg.b = "second_read_callback"
       THEN mpc' = "m481" /\ UNCHANGED testAborted
       ELSE testAborted' = TRUE /\ UNCHANGED mpc
  /\ UNCHANGED <<rpc, rsuccess, loc, sv, se, cl, net, chg, connVars, utilVars>>

(* lines 481-484: grpc_fd_orphan(em_fd, NULL, "d"); close(sv[1]). *)
M_ChangeFinish ==
  /\ ~testAborted /\ mpc = "m481" /\ rpc = "none"
  /\ chg' = [chg EXCEPT !.em_fd = grpc_fd_orphan(@)]
  /\ mpc' = "mdone"
  /\ UNCHANGED <<rpc, rsuccess, loc, sv, se, cl, net, testAborted, connVars, utilVars>>

(* lines 395-402: first_read_callback records itself in its argument,    *)
(* which first_closure binds to &a.                                      *)
first_read_callback ==
  /\ ~testAborted /\ rpc = "frc398"
  /\ chg' = [chg EXCEPT !.a = "first_read_callback", !.firstRuns = @ + 1]
  /\ rpc' = "none"
  /\ UNCHANGED <<mpc, rsuccess, loc, sv, se, cl, net, testAborted, connVars, utilVars>>

(* lines 404-411: second_read_callback records itself in its argument,   *)
(* which second_closure binds to &b.                                     *)
second_read_callback ==
  /\ ~testAborted /\ rpc = "src407"
  /\ chg' = [chg EXCEPT !.b = "second_read_callback", !.secondRuns = @ + 1]
  /\ rpc' = "none"
  /\ UNCHANGED <<mpc, rsuccess, loc, sv, se, cl, net, testAborted, connVars, utilVars>>

test_grpc_fd_change ==
  \/ M_ChangeSetup \/ M_ArmFirst \/ M_WriteFirst \/ M_WaitFirstExit
  \/ M_Drain \/ M_ArmSecond \/ M_WriteSecond \/ M_WaitSecondExit
  \/ M_ChangeFinish \/ D_ChangeRead \/ first_read_callback
  \/ second_read_callback

(* lines 489-498: main runs test_grpc_fd, then test_grpc_fd_change. *)
NextFdTest == upload \/ test_grpc_fd_change

SpecFdTest == Init /\ [][NextFdTest]_vars

(* Fair dispatch by grpc_pollset_work: main and a running callback go on *)
(* to their next statement, the kernel delivers the bytes it holds, and  *)
(* a closure whose condition holds while main is in a wait loop is       *)
(* dispatched.                                                           *)
FairSpecFdTest ==
  /\ SpecFdTest
  /\ WF_vars(M_ServerStart \/ M_ClientStart \/ M_ClientWaitExit
             \/ M_ServerWaitExit \/ M_AssertTotals)
  /\ WF_vars(K_Transfer)
  /\ WF_vars(D_Listen) /\ WF_vars(D_SessionRead) /\ WF_vars(D_ClientWrite)
  /\ WF_vars(CSW_Entry \/ CSW_Write \/ CSW_Eagain)
  /\ WF_vars(SRD_Entry \/ SRD_Read \/ SRD_Account \/ SRD_Finish
             \/ session_shutdown_cb)
  /\ WF_vars(LCB \/ listen_shutdown_cb)
  /\ WF_vars(test_grpc_fd_change)

----------------------------------------------------------------------------
(* Properties of the descriptor tests.                                   *)

(* C16: readiness callbacks are one-shot and re-arming replaces the      *)
(* callback: first_closure runs once, on the first readiness event only; *)
(* once second_closure is armed (line 466) first_read_callback is never  *)
(* running or run again, and the second event runs second_read_callback, *)
(* once, after which a and b hold their own callbacks.                   *)
C16_RearmReplaces ==
  /\ chg.firstRuns <= 1 /\ chg.secondRuns <= 1
  /\ rpc = "src407" \/ chg.secondRuns = 1 => chg.firstRuns = 1
  /\ mpc \in {"m468", "m472", "m481", "mdone"} =>
       /\ rpc # "frc398"
       /\ chg.firstRuns = 1
       /\ chg.a = "first_read_callback"
  /\ mpc \in {"m481", "mdone"} =>
       /\ chg.secondRuns = 1
       /\ chg.b = "second_read_callback"

C16_Witness ==
  /\ mpc = "mdone"
  /\ chg.firstRuns = 1 /\ chg.secondRuns = 1
  /\ chg.em_fd.orphans = 1

(* C17: once the client and the server of the upload have both finished, *)
(* the server's read_bytes_total equals the client's write_bytes_total,  *)
(* however the bytes were split into writes, reads and waits; the        *)
(* assertion of line 383 does not fail.                                  *)
C17_UploadTotal ==
  /\ cl.done = 1 /\ sv.done = 1 =>
       sv.read_bytes_total = cl.write_bytes_total
  /\ ~testAborted

C17_Witness ==
  /\ mpc = "m383"
  /\ cl.done = 1 /\ sv.done = 1
  /\ cl.client_write_cnt = CLIENT_TOTAL_WRITE_CNT
  /\ cl.write_bytes_total > SndBufCap + RcvBufCap
  /\ sv.read_bytes_total = cl.write_bytes_total

----------------------------------------------------------------------------
(* Further properties of the connector *)

(* C21: on the asynchronous success path the descriptor is removed from  *)
(* the interest group (line 168) before grpc_tcp_create wraps it (line   *)
(* 169), and from the wrapping on no step of the connector orphans it,   *)
(* shuts it down or removes it again.                                    *)
C21_HandedOverUntouched ==
  /\ [][/\ (wep # "ep" /\ wep' = "ep") =>
             /\ wpc = "w169" /\ wsuccess /\ wso = "0"
             /\ adds = 1 /\ dels = 1 /\ orphans = 0
             /\ ac_fd = "NULL" /\ wfd' = "NULL"
        /\ wep = "ep" => UNCHANGED <<orphans, fdShutdown, dels, wc>>]_vars
  /\ []((cbCount >= 1 /\ cbEp = "ep" /\ cbFrom = "on_writable") =>
          (orphans = 0 /\ dels = 1))

(* The endpoint was reported and the late timer has run to its end. *)
C21_Witness ==
  /\ cbCount = 1 /\ cbEp = "ep" /\ cbFrom = "on_writable"
  /\ wpc = "wdone" /\ tpc = "tdone" /\ orphans = 0 /\ dels = 1

(* C22: the descriptor added to interested_parties at line 253 is        *)
(* removed from it once, never twice, and before on_writable invokes cb, *)
(* on the success exit and on the terminal-failure exits; a descriptor   *)
(* of a synchronous path is neither added nor removed.                   *)
C22_InterestGroupBalanced ==
  /\ dels <= adds /\ adds <= 1
  /\ wpc \in {"w186", "w187", "w188", "w193", "wdone"} => dels = 1
  /\ (cbCount >= 1 /\ cbFrom = "on_writable") => (adds = 1 /\ dels = 1)
  /\ (cbCount >= 1 /\ cbFrom = "connect") => (adds = 0 /\ dels = 0)
  /\ err \in {"ok", "error"} => (adds = 0 /\ dels = 0)

(* on_writable is about to report a failed getsockopt, the descriptor    *)
(* already removed.                                                      *)
C22_Witness ==
  /\ wpc = "w193" /\ wso = "getsockopt_failed" /\ cbCount = 0
  /\ adds = 1 /\ dels = 1

(* C23: the ENOBUFS branch of on_writable (lines 152-155) leaves refs    *)
(* unchanged, does not invoke cb, does not orphan the descriptor or      *)
(* remove it from the interest group, releases ac->mu, arms the write    *)
(* closure again on the same descriptor and returns.                     *)
C23_EnobufsIsContinuation ==
  [][(wpc \in {"w153", "w154"} /\ wpc' # wpc) =>
       /\ UNCHANGED <<refs, owDecs, cbVars, orphans, dels, adds, acState,
                      wfd, fdCreated>>
       /\ wpc = "w153" => (mu = "on_writable" /\ mu' = "free"
                           /\ wpc' = "w154")
       /\ wpc = "w154" => (mu' # "on_writable" /\ wfd = "fdobj"
                           /\ wc = "unarmed" /\ wc' = "armed"
                           /\ wpc' = "idle")]_vars

(* on_writable has returned from the ENOBUFS branch: closure armed, no   *)
(* report, the reference of the write path still counted.                *)
C23_Witness ==
  /\ wpc = "idle" /\ enobufs = 1 /\ wc = "armed" /\ cbCount = 0
  /\ owDecs = 0 /\ orphans = 0 /\ dels = 0

(* C24: the grpc_fd is orphaned at most once, by line 183 or line 248;   *)
(* once it is orphaned the write closure is not armed and is not armed   *)
(* again, and no step shuts the descriptor down.                         *)
C24_OrphanIsLast ==
  /\ [](orphans <= 1)
  /\ [](orphans >= 1 => wc = "unarmed")
  /\ [][orphans' > orphans => wpc = "w181" \/ cpc = "c248"]_vars
  /\ [][orphans >= 1 => UNCHANGED <<wc, fdShutdown>>]_vars

(* The descriptor was orphaned by on_writable and the timer, firing      *)
(* late, ran to its end without a shutdown.                              *)
C24_Witness ==
  /\ orphans = 1 /\ wpc = "wdone" /\ alarm = "fired" /\ tpc = "tdone"
  /\ ~fdShutdown

(* C25: whenever cb receives a non-null endpoint from on_writable, the   *)
(* descriptor that the endpoint wraps was not shut down by tc_on_alarm,  *)
(* also when the timer fires after the write closure was dispatched      *)
(* with the success indicator.                                           *)
C25_EndpointNotShutDown ==
  (cbCount >= 1 /\ cbEp = "ep" /\ cbFrom = "on_writable") => ~fdShutdown

(* C26: GPR_ASSERT(ac->fd) of line 120 holds in every run of             *)
(* on_writable, the run that follows a re-arm of the closure by line 154 *)
(* included.                                                             *)
C26_EntryAssertionHolds ==
  (wpc = "w120" /\ mu = "on_writable") => ac_fd = "fdobj"

(* C27: while the write closure is armed and cb has not been invoked,    *)
(* the deadline is still enforced: the timer is pending, or it has fired *)
(* and tc_on_alarm is on its way to the shutdown of line 97, or the      *)
(* descriptor is shut down.                                              *)
C27_DeadlineStaysEnforced ==
  (wc = "armed" /\ cbCount = 0) =>
    \/ alarm = "pending"
    \/ alarm = "fired" /\ tpc \in {"t95", "t96"} /\ ac_fd = "fdobj"
    \/ fdShutdown

(* C28: tc_on_alarm never shuts the descriptor down before the write     *)
(* closure was armed, and every shutdown it makes finds the closure      *)
(* armed, so that on_writable is dispatched with the failure indicator.  *)
C28_ShutdownFindsClosureArmed ==
  [][fdShutdown' # fdShutdown =>
       (tpc = "t96" /\ cpc \in {"c274", "returned"} /\ wc = "armed")]_vars

(* Statements that read or write a field of the async_connect record     *)
(* (lock and unlock of ac->mu and the use of &ac->alarm and              *)
(* &ac->write_closure included), by function. Lines 193 and 274-277 use  *)
(* locals only; lines 101-105 and 188-192 test the local done.           *)
ConnectRecordPcs == {"c267", "c268", "c271", "c272"}
TimerRecordPcs == {"t95", "t96", "t99", "t100"}
WriteRecordPcs == {"w115", "w119", "w120", "w123", "w125", "w125_wait",
                   "w127", "w128", "w153", "w154", "w168", "w169", "w181",
                   "w186", "w187"}

(* C29: once the record is released no function is at a statement that   *)
(* uses it or will run one: the releasing function and the other one are *)
(* past their unlock, on_writable having only the call of cb left, made  *)
(* through its copies of cb and cb_arg; the record is released by a      *)
(* function whose decrement reached 0, after its unlock, the lock free   *)
(* of it.                                                                *)
C29_NoUseAfterRelease ==
  /\ [](acState = "freed" =>
          /\ cpc \notin ConnectRecordPcs /\ cpc \in {"c274", "returned"}
          /\ tpc \notin TimerRecordPcs /\ tpc \in {"t101", "tdone"}
          /\ wpc \notin WriteRecordPcs /\ wpc \in {"w188", "w193", "wdone"}
          /\ wc = "unarmed" /\ alarm # "pending"
          /\ mu = "free" /\ refs = 0)
  /\ [][(acState = "live" /\ acState' = "freed") =>
          \/ wpc = "w188" /\ wdone /\ tpc \in {"t101", "tdone"}
          \/ tpc = "t101" /\ tdone /\ wpc \in {"w188", "w193", "wdone"}]_vars
  /\ [][(cbCount' > cbCount /\ acState # "none") => wpc = "w193"]_vars

(* on_writable has released the record and is about to call cb through   *)
(* its copies.                                                           *)
C29_Witness ==
  acState = "freed" /\ wpc = "w193" /\ wdone /\ cbCount = 0

(* C30: on_writable does not hold ac->mu while it is inside              *)
(* grpc_alarm_cancel, and whether tc_on_alarm runs inside the cancel     *)
(* call or concurrently, a function waiting for ac->mu at line 95, 119   *)
(* or 127 gets it, unless the process has aborted.                       *)
C30_NoMutexDeadlock ==
  /\ [](wpc \in {"w125", "w125_wait"} => mu # "on_writable")
  /\ [](~aborted /\ mu # "free" =>
          \/ mu = "connect" /\ cpc \in {"c268", "c271", "c272"}
          \/ mu = "tc_on_alarm" /\ tpc \in {"t96", "t99", "t100"}
          \/ mu = "on_writable" /\ wpc \in {"w120", "w123", "w128", "w153",
                                            "w168", "w169", "w181", "w186",
                                            "w187"})
  /\ (tpc = "t95") ~> (tpc = "t96" \/ aborted)
  /\ (wpc = "w119") ~> (wpc = "w120" \/ aborted)
  /\ (wpc = "w127") ~> (wpc = "w128" \/ aborted)
  /\ (wpc = "w125_wait") ~> (wpc = "w127" \/ aborted)

(* tc_on_alarm, run inside the cancel call of on_writable, holds the     *)
(* lock.                                                                 *)
C30_Witness ==
  wpc = "w125_wait" /\ cancelSync /\ tpc = "t96" /\ mu = "tc_on_alarm"

(* C31: under fair dispatch both wait loops of the upload end: the       *)
(* client sets done, after CLIENT_TOTAL_WRITE_CNT re-arms of             *)
(* notify_on_write and one more full buffer or after a failed write      *)
(* callback, and the server sets done after the client's descriptor was  *)
(* closed.                                                               *)
C31_UploadTerminates ==
  /\ (mpc = "m381") ~> (mpc = "m382" /\ cl.done = 1)
  /\ (mpc = "m382") ~> (mpc = "m383" /\ sv.done = 1)
  /\ [][(cl.done = 0 /\ cl'.done = 1) =>
          \/ /\ rpc = "csw314"
             /\ cl.client_write_cnt = CLIENT_TOTAL_WRITE_CNT
          \/ rpc = "csw302" /\ ~rsuccess]_vars
  /\ [][(sv.done = 0 /\ sv'.done = 1) =>
          (net.closed /\ cl.done = 1 /\ cl.em_fd.orphans = 1)]_vars

(* Both loops have ended and main has gone past the comparison of the    *)
(* totals.                                                               *)
C31_Witness ==
  /\ mpc = "m427" /\ cl.done = 1 /\ sv.done = 1
  /\ cl.client_write_cnt = CLIENT_TOTAL_WRITE_CNT

(* C32: the server's done flag is set only after, in this order, the     *)
(* session read callback saw end-of-stream or failure, the session       *)
(* descriptor was orphaned, the listening descriptor was shut down, its  *)
(* read closure fired with the failure indicator and the listening       *)
(* descriptor was orphaned; neither descriptor is orphaned twice.        *)
C32_ServerShutdownOrder ==
  /\ [](sv.em_fd.orphans <= 1 /\ se.em_fd.orphans <= 1)
  /\ [][se'.em_fd.orphans > se.em_fd.orphans =>
          /\ rpc = "ssd124" /\ (~rsuccess \/ loc.read_once = 0)
          /\ ~sv.em_fd.shutdown /\ sv.em_fd.orphans = 0 /\ sv.done = 0]_vars
  /\ [][(~sv.em_fd.shutdown /\ sv'.em_fd.shutdown) =>
          /\ rpc = "ssd127" /\ se.em_fd.orphans = 1
          /\ sv.em_fd.closure = "listen_cb"
          /\ sv.em_fd.orphans = 0 /\ sv.done = 0]_vars
  /\ [](rpc \in {"lsd179", "lsd182"} =>
          (~rsuccess /\ sv.em_fd.shutdown /\ se.em_fd.orphans = 1))
  /\ [][sv'.em_fd.orphans > sv.em_fd.orphans =>
          (rpc = "lsd179" /\ sv.em_fd.shutdown /\ sv.done = 0)]_vars
  /\ [][(sv.done = 0 /\ sv'.done = 1) =>
          /\ rpc = "lsd182"
          /\ sv.em_fd.orphans = 1 /\ se.em_fd.orphans = 1]_vars
  /\ [](sv.done = 1 => (sv.em_fd.orphans = 1 /\ se.em_fd.orphans = 1))

(* The server is done: listener shut down, both descriptors orphaned. *)
C32_Witness ==
  /\ sv.done = 1 /\ rpc = "none" /\ sv.em_fd.shutdown
  /\ sv.em_fd.orphans = 1 /\ se.em_fd.orphans = 1 /\ ~se.allocated

----------------------------------------------------------------------------
(* test/core/util/reconnect_server.c: the list of connection timestamps. *)

(* The nodes reached from h through next, in order (at most fuel). *)
RECURSIVE WalkFrom(_, _, _)
WalkFrom(h, next, fuel) ==
  IF h = NULL \/ fuel = 0 THEN << >>
  ELSE <<h>> \o WalkFrom(next[h], next, fuel - 1)

(* lines 145-149: while (server->head) { new_head = server->head->next;  *)
(* gpr_free(server->head); server->head = new_head; }: the nodes left    *)
(* allocated when head has become NULL.                                  *)
RECURSIVE ClearLoop(_, _, _)
ClearLoop(head, next, alloc) ==
  IF head = NULL THEN alloc
  ELSE ClearLoop(next[head], next, alloc \ {head})

(* lines 68-102: on_connect: the first non-null peer is kept, a later    *)
(* one is compared and freed; a node with the current time and a NULL    *)
(* next is allocated and linked after tail, or becomes head and tail of  *)
(* an empty list. pretty_print_backoffs only reads the list.             *)
on_connect ==
  /\ Cardinality(rs.alloc) < MaxNodes
  /\ \E peer \in Peers, now \in 0..MaxTime, new_tail \in NodeIds \ rs.alloc :
       rs' = [rs EXCEPT
                !.peer = IF peer # "NULL" /\ rs.peer = "NULL" THEN peer
                         ELSE @,
                !.alloc = @ \cup {new_tail},
                !.ts = [@ EXCEPT ![new_tail] = now],
                !.next = IF rs.tail = NULL
                           THEN [@ EXCEPT ![new_tail] = NULL]
                           ELSE [@ EXCEPT ![new_tail] = NULL,
                                          ![rs.tail] = new_tail],
                !.head = IF rs.tail = NULL THEN new_tail ELSE @,
                !.tail = new_tail,
                !.arrivals = Append(@, now),
                !.lastOp = "on_connect"]
  /\ UNCHANGED <<connVars, testVars, js>>

(* Variant of reconnect_server_clear_timestamps that leaves tail alone. *)
reconnect_server_clear_timestamps_KeepsTail ==
  /\ rs' = [rs EXCEPT
              !.alloc = ClearLoop(rs.head, rs.next, rs.alloc),
              !.head = NULL,
              !.peer = "NULL",
              !.arrivals = << >>,
              !.lastOp = "clear",
              !.everCleared = TRUE]
  /\ UNCHANGED <<connVars, testVars, js>>

(* lines 143-153: reconnect_server_clear_timestamps: every node from     *)
(* head on is freed, head ends NULL, tail = NULL, peer is freed and set  *)
(* to NULL.                                                              *)
reconnect_server_clear_timestamps ==
  /\ rs' = [rs EXCEPT
              !.alloc = ClearLoop(rs.head, rs.next, rs.alloc),
              !.head = NULL,
              !.tail = NULL,
              !.peer = "NULL",
              !.arrivals = << >>,
              !.lastOp = "clear",
              !.everCleared = TRUE]
  /\ UNCHANGED <<connVars, testVars, js>>

NextReconnect == on_connect \/ reconnect_server_clear_timestamps

SpecReconnect == Init /\ [][NextReconnect]_vars

(* The nodes of the list, from head. *)
TimestampList == WalkFrom(rs.head, rs.next, MaxNodes + 1)

(* C33: after any sequence of on_connect and                             *)
(* reconnect_server_clear_timestamps calls, head is NULL exactly when    *)
(* tail is NULL, tail->next is NULL when the list is not empty, the list *)
(* holds one allocated node per on_connect since the last clear, in      *)
(* arrival order and ending at tail, and after a clear head, tail and    *)
(* peer are NULL.                                                        *)
C33_TimestampListShape ==
  /\ (rs.head = NULL) <=> (rs.tail = NULL)
  /\ rs.tail # NULL => rs.next[rs.tail] = NULL
  /\ Len(TimestampList) = Len(rs.arrivals)
  /\ \A i \in 1..Len(TimestampList) :
       /\ rs.ts[TimestampList[i]] = rs.arrivals[i]
       /\ TimestampList[i] \in rs.alloc
       /\ \A j \in 1..Len(TimestampList) :
            TimestampList[i] = TimestampList[j] => i = j
  /\ Len(TimestampList) > 0 => TimestampList[Len(TimestampList)] = rs.tail
  /\ Cardinality(rs.alloc) = Len(rs.arrivals)
  /\ rs.lastOp = "clear" =>
       (rs.head = NULL /\ rs.tail = NULL /\ rs.peer = "NULL"
        /\ rs.alloc = {})

(* After a clear two connections arrived, the later one with the         *)
(* earlier time stamp; the peer of the first one is kept.                *)
C33_Witness ==
  /\ rs.everCleared /\ Len(rs.arrivals) = 2
  /\ rs.arrivals[1] > rs.arrivals[2]
  /\ TimestampList = <<rs.head, rs.tail>> /\ rs.head # rs.tail
  /\ rs.peer = "b:1"

----------------------------------------------------------------------------
(* test/core/json/json_rewrite.c: the scratchpad of the reader. *)

(* line 85: needed = (needed + 0xffu) & ~0xffu rounds up to a multiple   *)
(* of this.                                                              *)
ScratchpadChunk == 256

(* lines 82-89: check_string(state, needed): nothing when free_space     *)
(* covers needed; else the missing part, rounded up, is added to the     *)
(* allocation and to free_space.                                         *)
check_string(st, needed) ==
  IF st.free_space >= needed THEN st
  ELSE LET missing == needed - st.free_space
           rounded ==
             ((missing + (ScratchpadChunk - 1)) \div ScratchpadChunk)
               * ScratchpadChunk
       IN  [st EXCEPT !.free_space = @ + rounded, !.allocated = @ + rounded]

(* lines 97-102: check_string(state, 1); GPR_ASSERT(c < 256);            *)
(* scratchpad[string_len++] = (char)c. free_space is left as it is.      *)
AddChar(st, c) ==
  LET s1 == check_string(st, 1)
  IN  [s1 EXCEPT !.string_len = @ + 1,
                 !.lastIndex = s1.string_len,
                 !.lastAllocated = s1.allocated,
                 !.overflow = @ \/ s1.string_len >= s1.allocated]

(* Bytes the reader hands to json_reader_string_add_char. *)
Bytes == {0, 65, 255}

(* lines 91-95: json_reader_string_clear: free_space = allocated;        *)
(* string_len = 0.                                                       *)
json_reader_string_clear ==
  /\ ~js.overflow
  /\ js' = [js EXCEPT !.free_space = js.allocated, !.string_len = 0]
  /\ UNCHANGED <<connVars, testVars, rs>>

(* lines 97-102: json_reader_string_add_char(userdata, c). A store       *)
(* outside the scratchpad has undefined behaviour: the model records it  *)
(* and follows the program no further.                                   *)
json_reader_string_add_char ==
  /\ ~js.overflow
  /\ \E c \in Bytes :
       /\ c < 256
       /\ js' = AddChar(js, c)
  /\ UNCHANGED <<connVars, testVars, rs>>

NextJson == json_reader_string_clear \/ json_reader_string_add_char

SpecJson == Init /\ [][NextJson]_vars

(* C34: every byte stored by json_reader_string_add_char is written at   *)
(* an index below the allocated size of the scratchpad, and string_len   *)
(* never exceeds allocated.                                              *)
C34_ScratchpadInBounds ==
  /\ js.string_len <= js.allocated
  /\ js.lastAllocated > 0 => js.lastIndex < js.lastAllocated
  /\ ~js.overflow

====
